---- MODULE Spec2Model ----
(***************************************************************************)
(* A model of the GridCentric manager (gridcentric/nova/extension/         *)
(* manager.py): the per-instance lock table, the _lock_call wrapper, the   *)
(* bless / launch / discard / migrate protocols and the _refresh_host      *)
(* reconciliation pass, over a shared inventory store and two hosts.       *)
(*                                                                         *)
(* Every request runs as a stack of frames, one per wrapped call; the top  *)
(* frame is the one executing.  One action is one suspension point of the  *)
(* code (a store, driver or message-bus call) together with the local      *)
(* code that follows it up to the next suspension point: greenlets are     *)
(* scheduled cooperatively, so that stretch is atomic in the program too.  *)
(***************************************************************************)
EXTENDS Integers, Sequences, FiniteSets, TLC

VARIABLES
    locked_instances,   \* per host: instance id -> <<locking greenlet, refcount>>
    cond,               \* per host: the holder of the manager's condition lock
    stack,              \* per request task: its frames, the last one executing
    result,             \* per request task: outcome of its finished call
    acq,                \* history: returns from _lock_instance minus calls of _unlock_instance
    db,                 \* the inventory store: instance id -> record
    metadata,           \* the inventory store: instance id -> tag metadata
    running,            \* per host: the VMs its hypervisor runs
    refresh,            \* per host: the state of its _refresh_host pass
    now,                \* the clock read by utils.utcnow()
    faults,             \* failures of external calls injected so far
    passes,             \* reconciliation passes started so far
    hist                \* history of what each request did (driver calls, writes, ...)

vars == <<locked_instances, cond, stack, result, acq, db, metadata, running,
          refresh, now, faults, passes, hist>>

----------------------------------------------------------------------------
(* Bounds of the model. *)

MaxFaults == 1      \* failing external calls in one behaviour
MaxPasses == 1      \* reconciliation passes in one behaviour
MaxDepth  == 2      \* nesting of wrapped calls in the lock-manager harness
MaxTargetLen == 3   \* length of the generated page-budget strings

Hosts    == {"h1", "h2"}
Tasks    == {"t1", "t2"}            \* the request greenlets of the protocols
AllTasks == {"t1", "t2", "t3"}      \* the greenlets of the lock-manager harness
Ids      == {1, 2, 3, 4}            \* instance ids that have a record
\* an instance id without a record
UnknownId == CHOOSE i \in 1..(Cardinality(Ids) + 1) : i \notin Ids
ReqIds   == Ids \cup {UnknownId}

None  == "None"
NoOne == "nobody"

----------------------------------------------------------------------------
(* The lock table: _lock_instance and _unlock_instance. *)

\* a mutant of Blocked: nobody ever waits
NeverBlocked(tbl, i, t) == FALSE

\* the test of the while loop of _lock_instance: somebody else holds the entry
Blocked(tbl, i, t) == i \in DOMAIN tbl /\ tbl[i][1] # t

\* locked_instances[instance_id] = (locking_thread, refcount + 1)
Acquire(tbl, i, t) ==
    IF i \in DOMAIN tbl
    THEN [tbl EXCEPT ![i] = <<tbl[i][1], tbl[i][2] + 1>>]
    ELSE [j \in DOMAIN tbl \cup {i} |-> IF j = i THEN <<t, 1>> ELSE tbl[j]]

\* a mutant of Release: the entry is deleted whatever its refcount
ReleaseAlwaysDeletes(tbl, i) ==
    [j \in DOMAIN tbl \ {i} |-> tbl[j]]

\* the table after _unlock_instance(i)
Release(tbl, i) ==
    IF i \notin DOMAIN tbl THEN tbl
    ELSE IF tbl[i][2] = 1
         THEN [j \in DOMAIN tbl \ {i} |-> tbl[j]]
         ELSE [tbl EXCEPT ![i] = <<tbl[i][1], tbl[i][2] - 1>>]

\* a mutant of Finally: the lock is released only when the function returns
FinallyOnlyOnReturn(tbl, f) == IF f.exc THEN tbl ELSE Release(tbl, f.id)

\* the try/finally of wrapped_fn: _unlock_instance runs on every exit path
Finally(tbl, f) == Release(tbl, f.id)

\* _unlock_instance notifies exactly when it deletes the entry
Notifies(tbl, i) == i \in DOMAIN tbl /\ tbl[i][2] = 1

\* a mutant of NotifyAll: nobody is woken
NotifyNobody(st, h) == st

\* cond.notifyAll(): every greenlet in cond.wait() of host h is made runnable
\* again; it re-runs the loop of _lock_instance once it has the condition lock
NotifyAll(st, h) ==
    [t \in DOMAIN st |->
        IF st[t] # <<>> /\ st[t][Len(st[t])].pc = "wait" /\ st[t][Len(st[t])].host = h
        THEN [st[t] EXCEPT ![Len(st[t])].pc = "lock"]
        ELSE st[t]]

----------------------------------------------------------------------------
(* Frames. *)

\* the tag metadata of an instance, a dictionary: keys holds the keys that
\* are present; a field whose key is absent is not looked at
EmptyMeta == [keys |-> {}, images |-> <<>>, blessed |-> FALSE,
              gc_src_host |-> None, gc_dst_host |-> None]

\* no record: what a frame remembers of the record before its lock is taken
NoRecord ==
    [present |-> FALSE, vm_state |-> None, task_state |-> None, host |-> None,
     node |-> None, launched_at |-> <<>>, terminated_at |-> <<>>,
     disable_terminate |-> FALSE]

\* params.get("target", "0") of a launch without a target; a string is the
\* sequence of its characters
NoTarget == <<"0">>

\* history: memory_string_to_pages was not called
NotConverted == [called |-> FALSE, raised |-> FALSE, pages |-> 0]

\* the frame of a call of a wrapped function.  stub is FLAGS.stub_network as
\* the call reads it; pre and premeta are history: the record and the tag
\* metadata of the instance when the body of the function starts.  target is
\* the local target of launch_instance; param and conv are history: the
\* target the caller gave and what memory_string_to_pages did with it.
\* retries is the local retries of _instance_update
NewFrame(fn, h, i, mig, refhost, dest) ==
    [fn |-> fn, host |-> h, pc |-> "lock", id |-> i, mig |-> mig,
     refhost |-> refhost, dest |-> dest, meta |-> EmptyMeta, refs |-> <<>>,
     changed |-> FALSE, exc |-> FALSE, waited |-> FALSE,
     stub |-> FALSE, pre |-> NoRecord, premeta |-> EmptyMeta,
     target |-> NoTarget, param |-> NoTarget, conv |-> NotConverted,
     retries |-> 0]

Top(t) == stack[t][Len(stack[t])]

Running(t, fn, pc) ==
    stack[t] # <<>> /\ Top(t).fn = fn /\ Top(t).pc = pc

SetTop(st, t, f) == [st EXCEPT ![t] = [@ EXCEPT ![Len(@)] = f]]

Push(st, t, parentpc, f) ==
    [st EXCEPT ![t] = Append([@ EXCEPT ![Len(@)].pc = parentpc], f)]

\* the first suspension point of each wrapped function's body
Entry(f) ==
    CASE f.fn = "hold"    -> "h_body"
      [] f.fn = "bless"   -> IF f.mig THEN "b_bless" ELSE "b_src"
      [] f.fn = "launch"  -> IF f.mig THEN "l_mget" ELSE "l_src"
      [] f.fn = "discard" -> "d_mget"
      [] f.fn = "migrate" -> "m_check"

\* what the caller's frame does when the call it waits for returns (ok) or
\* raises; lost: the reply of a remote call did not reach the caller
Resume(parent, ok, lost) ==
    CASE parent.pc = "w_hold"    -> [parent EXCEPT !.pc = "h_body"]
      [] parent.pc = "w_bless"   ->
            IF ok THEN [parent EXCEPT !.pc = "m_premig"]
                  ELSE [parent EXCEPT !.pc = "unlock", !.exc = TRUE]
      [] parent.pc = "w_rlaunch" ->
            IF ok /\ ~lost THEN [parent EXCEPT !.pc = "m_postmig", !.changed = TRUE]
                           ELSE [parent EXCEPT !.pc = "m_llaunch"]
      [] parent.pc = "w_llaunch" ->
            IF ok THEN [parent EXCEPT !.pc = "m_postmig", !.changed = FALSE]
                  ELSE [parent EXCEPT !.pc = "unlock", !.exc = TRUE]

----------------------------------------------------------------------------
(* The initial state. *)

\* an instance record; launched_at and terminated_at are <<>> while unset and
\* <<time>> once stamped; node is a field no update of the manager names
Record(vm, task, host, launched, disable) ==
    [present |-> TRUE, vm_state |-> vm, task_state |-> task, host |-> host,
     node |-> None, launched_at |-> launched, terminated_at |-> <<>>,
     disable_terminate |-> disable]

\* the records the API layer leaves for the manager: a running instance, the
\* placeholder of a bless of it, a blessed template and the placeholder of a
\* launch from that template
InitialRecords ==
    [i \in Ids |->
        CASE i = 1 -> Record("active",   None, "h1", <<0>>, FALSE)
          [] i = 2 -> Record("building", None, "h1", <<>>,  TRUE)
          [] i = 3 -> Record("blessed",  None, "h1", <<0>>, TRUE)
          [] i = 4 -> Record("building", None, None, <<>>,  FALSE)]

InitialMetadata ==
    [i \in Ids |->
        IF i = 3 THEN [EmptyMeta EXCEPT !.keys = {"images", "blessed"},
                                        !.images = <<"a">>, !.blessed = TRUE]
                 ELSE EmptyMeta]

\* metadata["blessed_from"] / metadata["launched_from"]: written by the API
\* layer when it creates the placeholder, never changed by the manager
blessed_from(i)  == IF i \in {2, 3} THEN 1 ELSE None
launched_from(i) == IF i = 4 THEN 3 ELSE None

\* src and dst are the locals src_host and dst_host of the pass; reconf is
\* history: the host the networks of cur were reconfigured against
IdleRefresh == [pc |-> "idle", todo |-> {}, local |-> {},
                cur |-> None, state |-> None, host |-> None,
                src |-> None, dst |-> None, reconf |-> None]

\* calls is the driver calls of bless_instance, in order, each with the
\* image references it was given; attempts is the outcomes of the calls of
\* db.instance_update made by one call of _instance_update, in order
NoHistory == [fn |-> None, id |-> None, host |-> None, refhost |-> None,
              start |-> 0,
              effects |-> {}, moved |-> FALSE, failed |-> FALSE,
              fellback |-> FALSE, notes |-> {}, trail |-> <<>>,
              calls |-> <<>>, attempts |-> <<>>]

Init ==
    /\ locked_instances = [h \in Hosts |-> <<>>]
    /\ cond = [h \in Hosts |-> NoOne]
    /\ stack = [t \in AllTasks |-> <<>>]
    /\ result = [t \in AllTasks |-> "idle"]
    /\ acq = [t \in AllTasks |-> [h \in Hosts |-> [i \in ReqIds |-> 0]]]
    /\ db = InitialRecords
    /\ metadata = InitialMetadata
    /\ running = [h \in Hosts |-> IF h = "h1" THEN {1} ELSE {}]
    /\ refresh = [h \in Hosts |-> IdleRefresh]
    /\ now = 1
    /\ faults = 0
    /\ passes = 0
    /\ hist = [t \in AllTasks |-> NoHistory]

----------------------------------------------------------------------------
(* _lock_call.wrapped_fn: lock, run the function, unlock in the finally. *)

\* history: a migrate request that arrived at the instance's host had to wait
\* for the lock, and the record names another host when it gets the lock
MovedMeanwhile(t) ==
    /\ Len(stack[t]) = 1
    /\ Top(t).fn = "migrate"
    /\ Top(t).waited
    /\ Top(t).refhost = Top(t).host
    /\ db[Top(t).id].host # Top(t).host

\* the frame when the body of the function starts
Started(f) ==
    IF f.id \in Ids
    THEN [f EXCEPT !.pc = Entry(f), !.pre = db[f.id], !.premeta = metadata[f.id]]
    ELSE [f EXCEPT !.pc = Entry(f)]

\* _lock_instance: under the condition lock, wait while another greenlet
\* holds the entry, then take it (or count one more acquisition)
_lock_instance(t) ==
    /\ stack[t] # <<>>
    /\ Top(t).pc = "lock"
    /\ cond[Top(t).host] = NoOne
    /\ LET f == Top(t)
           tbl == locked_instances[f.host]
       IN IF Blocked(tbl, f.id, t)
          THEN /\ stack' = SetTop(stack, t, [f EXCEPT !.pc = "wait", !.waited = TRUE])
               /\ UNCHANGED <<locked_instances, acq>>
          ELSE /\ locked_instances' =
                      [locked_instances EXCEPT ![f.host] = Acquire(tbl, f.id, t)]
               /\ acq' = [acq EXCEPT ![t][f.host][f.id] = @ + 1]
               /\ stack' = SetTop(stack, t, Started(f))
    /\ hist' = IF MovedMeanwhile(t) /\ ~Blocked(locked_instances[Top(t).host], Top(t).id, t)
               THEN [hist EXCEPT ![t].moved = TRUE]
               ELSE hist
    /\ UNCHANGED <<cond, result, db, metadata, running, refresh, now, faults,
                   passes>>

\* the finally of wrapped_fn: _unlock_instance, then the call returns or
\* raises to its caller; lost: a remote caller does not get the reply
Leave(t, lost) ==
    /\ stack[t] # <<>>
    /\ Top(t).pc = "unlock"
    /\ cond[Top(t).host] = NoOne
    /\ LET f == Top(t)
           n == Len(stack[t])
           tbl == locked_instances[f.host]
           st == IF n = 1
                 THEN [stack EXCEPT ![t] = <<>>]
                 ELSE [stack EXCEPT ![t] =
                          Append(SubSeq(@, 1, n - 2),
                                 Resume(@[n - 1], ~f.exc, lost))]
       IN /\ locked_instances' =
                 [locked_instances EXCEPT ![f.host] = Finally(tbl, f)]
          /\ acq' = [acq EXCEPT ![t][f.host][f.id] = @ - 1]
          /\ stack' = IF Notifies(tbl, f.id) THEN NotifyAll(st, f.host) ELSE st
          /\ result' = IF n = 1
                       THEN [result EXCEPT ![t] = IF f.exc THEN "error" ELSE "ok"]
                       ELSE result

_unlock_instance(t) ==
    /\ Leave(t, FALSE)
    /\ UNCHANGED <<cond, db, metadata, running, refresh, now, faults, passes, hist>>

----------------------------------------------------------------------------
(* Helpers of the protocols. *)

\* an external call (store, driver, message bus) succeeds or fails; the
\* failures of one behaviour are bounded
Fault(ok) ==
    /\ ok \/ faults < MaxFaults
    /\ faults' = IF ok THEN faults ELSE faults + 1

\* an external call made inside the except block of bless_instance: it may
\* fail after the failure that entered the block
FaultInHandler(ok) ==
    /\ ok \/ faults <= MaxFaults
    /\ faults' = IF ok THEN faults ELSE faults + 1

Goto(t, f) == stack' = SetTop(stack, t, f)

At(f, pc) == [f EXCEPT !.pc = pc]

\* an exception leaves the function: the finally of wrapped_fn runs next
Raise(f) == [f EXCEPT !.pc = "unlock", !.exc = TRUE]

\* a mutant of BestEffort: the failure of the side-step is raised
BestEffortRaised(f, ok, next) == IF ok THEN At(f, next) ELSE Raise(f)

\* a best-effort side-step (the emission of _notify, bless_cleanup, the
\* post-migration calls): an except block logs its failure, and the code
\* goes on at next as it does when the side-step succeeds
BestEffort(f, ok, next) == At(f, next)

\* history: request t did something of kind k; with ok false, one of its
\* external calls failed
Did(t, k, ok) ==
    hist' = [hist EXCEPT ![t].effects = @ \cup k,
                         ![t].failed = @ \/ ~ok]

\* the decimal digits, in order: Digits[k] stands for k - 1
Digits == <<"0", "1", "2", "3", "4", "5", "6", "7", "8", "9">>

IsDigit(c) == \E k \in 1..Len(Digits) : Digits[k] = c

DigitValue(c) == (CHOOSE k \in 1..Len(Digits) : Digits[k] = c) - 1

UpperCase == <<"A", "B", "C", "D", "E", "F", "G", "H", "I", "J", "K", "L", "M",
               "N", "O", "P", "Q", "R", "S", "T", "U", "V", "W", "X", "Y", "Z">>
LowerCase == <<"a", "b", "c", "d", "e", "f", "g", "h", "i", "j", "k", "l", "m",
               "n", "o", "p", "q", "r", "s", "t", "u", "v", "w", "x", "y", "z">>

\* mem.lower()
Lower(str) ==
    [k \in 1..Len(str) |->
        IF \E j \in 1..Len(UpperCase) : UpperCase[j] = str[k]
        THEN LowerCase[CHOOSE j \in 1..Len(UpperCase) : UpperCase[j] = str[k]]
        ELSE str[k]]

\* long(m.group(1)) of a string of digits
RECURSIVE LongOf(_)
LongOf(str) ==
    IF str = <<>> THEN 0
    ELSE 10 * LongOf(SubSeq(str, 1, Len(str) - 1)) + DigitValue(str[Len(str)])

\* str(n) of a natural number
RECURSIVE Str(_)
Str(n) ==
    IF n < 10 THEN <<Digits[n + 1]>>
    ELSE Str(n \div 10) \o <<Digits[(n % 10) + 1]>>

\* the shift that turns a byte count into a page count: memory >> 12
PageShift == 12

\* the dictionary units: the suffix of each pattern '^(\d+)<suffix>$' and
\* its shift
units ==
    { [suffix |-> <<"t", "b">>, shift |-> 40],
      [suffix |-> <<"g", "b">>, shift |-> 30],
      [suffix |-> <<"m", "b">>, shift |-> 20],
      [suffix |-> <<"k", "b">>, shift |-> 10],
      [suffix |-> <<"b">>,      shift |-> 0],
      [suffix |-> <<>>,         shift |-> 0] }

\* where '$' matches in str: at its end and, when str ends with a newline,
\* just before that newline
Ends(str) ==
    {Len(str)} \cup (IF str # <<>> /\ str[Len(str)] = "\n" THEN {Len(str) - 1}
                                                             ELSE {})

\* re.match('^(\d+)<suffix>$', str): the set of the possible group(1), empty
\* when there is no match
Groups(suffix, str) ==
    { SubSeq(str, 1, e - Len(suffix)) : e \in
        { e \in Ends(str) :
            /\ e > Len(suffix)
            /\ SubSeq(str, e - Len(suffix) + 1, e) = suffix
            /\ \A k \in 1..(e - Len(suffix)) : IsDigit(str[k]) } }

\* a mutant of Pages: the ceiling of the division
PagesCeiling(val, shift) ==
    IF shift >= PageShift
    THEN val * 2^(shift - PageShift)
    ELSE IF val = 0 THEN 1
         ELSE ((val * 2^shift) + 2^PageShift - 1) \div 2^PageShift

\* memory = val << shift; max(1, memory >> 12).  The values are longs, of
\* unbounded width: for a shift of 12 or more the two shifts are one left
\* shift by the difference, which keeps the intermediate value small
Pages(val, shift) ==
    LET pages == IF shift >= PageShift
                 THEN val * 2^(shift - PageShift)
                 ELSE (val * 2^shift) \div 2^PageShift
    IN IF pages > 1 THEN pages ELSE 1

\* memory_string_to_pages(mem): the first pattern of units that matches
\* gives the page count; without a match, ValueError is raised
memory_string_to_pages(mem) ==
    LET low == Lower(mem)
        hits == {u \in units : Groups(u.suffix, low) # {}}
    IN IF hits = {}
       THEN [called |-> TRUE, raised |-> TRUE, pages |-> 0]
       ELSE LET u == CHOOSE u \in hits : TRUE
                g == CHOOSE g \in Groups(u.suffix, low) : TRUE
            IN [called |-> TRUE, raised |-> FALSE,
                pages |-> Pages(LongOf(g), u.shift)]

\* history: bless_instance called the driver's function name with the image
\* references refs; with ok false the call raised, which note records
DidDriver(t, name, refs, ok, note) ==
    hist' = [hist EXCEPT
        ![t].effects = @ \cup {"driver", name},
        ![t].failed = @ \/ ~ok,
        ![t].notes = @ \cup (IF ok THEN {} ELSE {note}),
        ![t].calls = Append(@, <<name, refs>>)]

\* ','.join(image_refs), a string as the sequence of its characters
RECURSIVE Join(_)
Join(refs) ==
    IF refs = <<>> THEN <<>>
    ELSE IF Len(refs) = 1 THEN refs[1]
    ELSE refs[1] \o <<",">> \o Join(Tail(refs))

\* str.split(','): the pieces between the commas, at least one piece
RECURSIVE Split(_)
Split(str) ==
    IF \E k \in 1..Len(str) : str[k] = ","
    THEN LET k == CHOOSE k \in 1..Len(str) :
                     str[k] = "," /\ \A j \in 1..(k - 1) : str[j] # ","
         IN <<SubSeq(str, 1, k - 1)>> \o Split(SubSeq(str, k + 1, Len(str)))
    ELSE <<str>>

\* _extract_image_refs: metadata.get('images', '').split(','), [''] read as []
_extract_image_refs(m) ==
    LET pieces == Split(IF "images" \in m.keys THEN m.images ELSE <<>>)
    IN IF Len(pieces) = 1 /\ pieces[1] = <<>> THEN <<>> ELSE pieces

\* the reference lists the driver's post_bless may return
PostBlessRefs == {<<>>, << <<"b">>, <<"a">> >>}

\* db.instance_update on an existing record
Updated(i, changes) ==
    [db EXCEPT ![i] = [k \in DOMAIN @ |->
                          IF k \in DOMAIN changes THEN changes[k] ELSE @[k]]]

\* _instance_update(instance_id, **changes): the store applies the changes
\* (ok), or every attempt failed and the last failure is raised
_instance_update(i, changes, ok) ==
    db' = IF ok /\ db[i].present THEN Updated(i, changes) ELSE db

StoreOk(i, ok) == ok /\ db[i].present

\* history: request t called _instance_update(i, **changes); when the store
\* took it, the (vm_state, task_state) written is added to the trail
DidUpdate(t, i, changes, ok) ==
    hist' = [hist EXCEPT
        ![t].effects = @ \cup (IF StoreOk(i, ok) THEN {"record"} ELSE {}),
        ![t].failed = @ \/ ~StoreOk(i, ok),
        ![t].notes = @ \cup (IF StoreOk(i, ok) THEN {} ELSE {"update failed"}),
        ![t].trail = IF StoreOk(i, ok)
                     THEN Append(@, <<changes.vm_state, changes.task_state>>)
                     ELSE @]

----------------------------------------------------------------------------
(* Requests: the message bus delivers a call of a wrapped function. *)

\* stub: the value of FLAGS.stub_network at the manager that gets a launch
Menu ==
    {[fn |-> "bless",   id |-> 2, host |-> "h1", dest |-> None, stub |-> FALSE]}
    \cup {[fn |-> "discard", id |-> i, host |-> "h1", dest |-> None, stub |-> FALSE] :
             i \in {2, 3}}
    \cup {[fn |-> "launch",  id |-> 4, host |-> h, dest |-> None, stub |-> b] :
             h \in Hosts, b \in BOOLEAN}
    \cup {[fn |-> "migrate", id |-> 1, host |-> h, dest |-> d, stub |-> FALSE] :
             h \in Hosts, d \in Hosts}
    \cup {[fn |-> f, id |-> UnknownId, host |-> "h1", dest |-> None, stub |-> FALSE] :
             f \in {"bless", "launch", "discard", "migrate"}}

\* the API layer sends the requests about one instance to one manager (only
\* a migrate may reach a host the instance is not, or no longer, on), and it
\* makes a new placeholder for every bless and launch, so that no two bless
\* or launch requests name the same instance
Routed(r, t) ==
    \A u \in Tasks \ {t} :
        (hist[u].fn # None /\ hist[u].id = r.id) =>
            /\ r.fn # "migrate" => hist[u].host = r.host
            /\ r.fn \in {"bless", "launch"} => hist[u].fn # r.fn

\* db.instance_get(context, instance_id) finds a record
Found(i) == i \in Ids /\ db[i].present

\* a mutant of NotFoundOutcome: a generic failure
GenericOutcome == "error"

\* what the caller gets when db.instance_get finds no record
NotFoundOutcome == "notfound"

\* wrapped_fn up to the call of _lock_instance: with an instance_id and no
\* instance_ref, the record is read from the store (unknown id: not found)
Request(t) ==
    /\ stack[t] = <<>>
    /\ result[t] = "idle"
    /\ \E r \in Menu :
          /\ Routed(r, t)
          /\ hist' = [hist EXCEPT ![t] =
                 [NoHistory EXCEPT !.fn = r.fn, !.id = r.id, !.host = r.host,
                                   !.start = now,
                                   !.refhost = IF Found(r.id)
                                               THEN db[r.id].host ELSE None,
                                   !.notes = IF Found(r.id)
                                             THEN {} ELSE {"not found"}]]
          /\ IF Found(r.id)
             THEN /\ stack' = [stack EXCEPT ![t] =
                          <<[NewFrame(r.fn, r.host, r.id, FALSE, db[r.id].host, r.dest)
                                EXCEPT !.stub = r.stub]>>]
                  /\ UNCHANGED result
             ELSE /\ result' = [result EXCEPT ![t] = NotFoundOutcome]
                  /\ UNCHANGED stack
    /\ now' = now + 1
    /\ UNCHANGED <<locked_instances, cond, acq, db, metadata, running, refresh,
                   faults, passes>>

----------------------------------------------------------------------------
(* bless_instance *)

\* the instance the driver blesses: the instance itself in a migration, the
\* instance it was blessed from otherwise
BlessSource(f) == IF f.mig THEN f.id ELSE blessed_from(f.id)

\* _get_source_instance (not in a migration)
BlessGetSource(t) ==
    /\ Running(t, "bless", "b_src")
    /\ \E ok \in BOOLEAN :
          /\ Fault(ok)
          /\ Goto(t, IF ok THEN At(Top(t), "b_bless") ELSE Raise(Top(t)))
          /\ Did(t, {}, ok)
    /\ UNCHANGED <<locked_instances, cond, result, acq, db, metadata, running,
                   refresh, now, passes>>

\* a mutant of BlessHandler: the except block does not re-launch
BlessHandlerNoRelaunch(f) == At(f, "b_undo")

\* where the except block of the second try starts
BlessHandler(f) == IF f.mig THEN At(f, "b_relaunch") ELSE At(f, "b_undo")

\* a mutant of BlessRaised: a failed bless call is handled like a failure of
\* the steps after it
BlessRaisedIntoHandler(f) == BlessHandler(f)

\* except of the first try: mark ERROR unless in a migration, then re-raise
BlessRaised(f) == IF f.mig THEN Raise(f) ELSE At(f, "b_err0")

\* vms_conn.bless; a migration bless ends the VM on this host
BlessDriver(t) ==
    /\ Running(t, "bless", "b_bless")
    /\ LET f == Top(t) IN
       \E ok \in BOOLEAN :
          /\ Fault(ok)
          /\ LET done == ok /\ BlessSource(f) \in running[f.host] IN
             /\ running' = IF done /\ f.mig
                           THEN [running EXCEPT ![f.host] = @ \ {f.id}]
                           ELSE running
             /\ Goto(t, IF done THEN At(f, "b_post") ELSE BlessRaised(f))
             /\ hist' = [hist EXCEPT
                    ![t].effects = @ \cup {"driver", "bless"},
                    ![t].failed = @ \/ ~done,
                    ![t].notes = @ \cup (IF done THEN {} ELSE {"bless failed"}),
                    ![t].calls = Append(@, <<"bless", <<>>>>)]
    /\ UNCHANGED <<locked_instances, cond, result, acq, db, metadata, refresh,
                   now, passes>>

\* the bless call failed, not in a migration: mark the instance ERROR, re-raise
BlessFailed(t) ==
    /\ Running(t, "bless", "b_err0")
    /\ \E ok \in BOOLEAN :
          /\ Fault(ok)
          /\ _instance_update(Top(t).id,
                 [vm_state |-> "error", task_state |-> None], ok)
          /\ hist' = [hist EXCEPT
                 ![t].effects = @ \cup (IF StoreOk(Top(t).id, ok) THEN {"record"} ELSE {}),
                 ![t].failed = TRUE,
                 ![t].notes = @ \cup (IF StoreOk(Top(t).id, ok) THEN {}
                                      ELSE {"update failed"})]
    /\ Goto(t, Raise(Top(t)))
    /\ UNCHANGED <<locked_instances, cond, result, acq, metadata, running,
                   refresh, now, passes>>

\* vms_conn.post_bless
BlessPost(t) ==
    /\ Running(t, "bless", "b_post")
    /\ LET f == Top(t) IN
       \E ok \in BOOLEAN :
          /\ Fault(ok)
          /\ IF ok
             THEN \E refs \in PostBlessRefs :
                     Goto(t, [f EXCEPT !.pc = "b_mget", !.refs = refs])
             ELSE Goto(t, BlessHandler(f))
          /\ DidDriver(t, "post_bless", <<>>, ok, "post_bless failed")
    /\ UNCHANGED <<locked_instances, cond, result, acq, db, metadata, running,
                   refresh, now, passes>>

\* db.instance_metadata_get
BlessMetadataGet(t) ==
    /\ Running(t, "bless", "b_mget")
    /\ LET f == Top(t) IN
       \E ok \in BOOLEAN :
          /\ Fault(ok)
          /\ Goto(t, IF ok THEN [f EXCEPT !.pc = "b_mupd", !.meta = metadata[f.id]]
                     ELSE BlessHandler(f))
          /\ Did(t, {}, ok)
    /\ UNCHANGED <<locked_instances, cond, result, acq, db, metadata, running,
                   refresh, now, passes>>

\* a mutant of BlessedMetadata: the blessed flag is set in a migration too
BlessedMetadataFlagged(f) ==
    [f.meta EXCEPT !.keys = @ \cup {"images", "blessed"},
                   !.images = Join(f.refs),
                   !.blessed = TRUE]

\* metadata['images'] = ','.join(image_refs); metadata['blessed'] = True
\* unless in a migration
BlessedMetadata(f) ==
    [f.meta EXCEPT !.keys = @ \cup (IF f.mig THEN {"images"}
                                              ELSE {"images", "blessed"}),
                   !.images = Join(f.refs),
                   !.blessed = IF f.mig THEN @ ELSE TRUE]

\* db.instance_metadata_update, then (not in a migration) _notify, whose
\* emission may fail (sent false)
BlessMetadataUpdate(t) ==
    /\ Running(t, "bless", "b_mupd")
    /\ LET f == Top(t) IN
       \E ok, sent \in BOOLEAN :
          /\ sent \/ (ok /\ ~f.mig)
          /\ Fault(ok /\ sent)
          /\ metadata' = IF ok THEN [metadata EXCEPT ![f.id] = BlessedMetadata(f)]
                         ELSE metadata
          /\ Goto(t, IF ~ok THEN BlessHandler(f)
                     ELSE IF f.mig THEN At(f, "b_cleanup")
                     ELSE BestEffort(f, sent, "b_upd"))
          /\ hist' = [hist EXCEPT
                 ![t].effects = @ \cup (IF ok THEN {"meta"} ELSE {}),
                 ![t].failed = @ \/ ~ok,
                 ![t].notes = @ \cup (IF ok /\ ~f.mig THEN {"bless"} ELSE {})
                                \cup (IF sent THEN {} ELSE {"notify failed"})]
    /\ UNCHANGED <<locked_instances, cond, result, acq, db, running, refresh,
                   now, passes>>

\* a mutant of BlessedRecord: the template loses its protection
BlessedRecordUnprotected ==
    [vm_state |-> "blessed", task_state |-> None, launched_at |-> <<now>>,
     disable_terminate |-> FALSE]

\* a mutant of BlessedRecord: launched_at is not stamped
BlessedRecordNoStamp == [vm_state |-> "blessed", task_state |-> None]

\* the fields written by a successful bless that is not a migration
BlessedRecord ==
    [vm_state |-> "blessed", task_state |-> None, launched_at |-> <<now>>]

\* _instance_update(vm_state="blessed", task_state=None, launched_at=utcnow())
BlessUpdate(t) ==
    /\ Running(t, "bless", "b_upd")
    /\ LET f == Top(t) IN
       \E ok \in BOOLEAN :
          /\ Fault(ok)
          /\ _instance_update(f.id, BlessedRecord, ok)
          /\ Goto(t, IF StoreOk(f.id, ok) THEN At(f, "b_cleanup") ELSE BlessHandler(f))
          /\ Did(t, IF StoreOk(f.id, ok) THEN {"record"} ELSE {}, StoreOk(f.id, ok))
    /\ UNCHANGED <<locked_instances, cond, result, acq, metadata, running,
                   refresh, now, passes>>

\* except block, migration: vms_conn.launch brings the VM back on this host
BlessRelaunch(t) ==
    /\ Running(t, "bless", "b_relaunch")
    /\ LET f == Top(t) IN
       \E ok \in BOOLEAN :
          /\ FaultInHandler(ok)
          /\ running' = IF ok THEN [running EXCEPT ![f.host] = @ \cup {f.id}]
                        ELSE running
          /\ Goto(t, IF ok THEN At(f, "b_undo") ELSE Raise(f))
          /\ DidDriver(t, "launch", <<>>, ok, "relaunch failed")
    /\ UNCHANGED <<locked_instances, cond, result, acq, db, metadata, refresh,
                   now, passes>>

\* except block: vms_conn.discard of what post_bless produced
BlessUndo(t) ==
    /\ Running(t, "bless", "b_undo")
    /\ LET f == Top(t) IN
       \E ok \in BOOLEAN :
          /\ FaultInHandler(ok)
          /\ Goto(t, IF ~ok THEN Raise(f)
                     ELSE IF f.mig THEN At(f, "b_cleanup") ELSE At(f, "b_err1"))
          /\ DidDriver(t, "discard", f.refs, ok, "undo failed")
    /\ UNCHANGED <<locked_instances, cond, result, acq, db, metadata, running,
                   refresh, now, passes>>

\* except block, not in a migration: mark the instance ERROR
BlessUndone(t) ==
    /\ Running(t, "bless", "b_err1")
    /\ LET f == Top(t) IN
       \E ok \in BOOLEAN :
          /\ FaultInHandler(ok)
          /\ _instance_update(f.id, [vm_state |-> "error", task_state |-> None], ok)
          /\ Goto(t, IF StoreOk(f.id, ok) THEN At(f, "b_cleanup") ELSE Raise(f))
          /\ Did(t, IF StoreOk(f.id, ok) THEN {"record"} ELSE {}, StoreOk(f.id, ok))
    /\ UNCHANGED <<locked_instances, cond, result, acq, metadata, running,
                   refresh, now, passes>>

\* vms_conn.bless_cleanup, a failure only logged; return migration_url
BlessCleanup(t) ==
    /\ Running(t, "bless", "b_cleanup")
    /\ \E ok \in BOOLEAN :
          /\ Fault(ok)
          /\ DidDriver(t, "bless_cleanup", <<>>, ok, "cleanup failed")
          /\ Goto(t, BestEffort(Top(t), ok, "unlock"))
    /\ UNCHANGED <<locked_instances, cond, result, acq, db, metadata, running,
                   refresh, now, passes>>

BlessStep(t) ==
    \/ BlessGetSource(t)
    \/ BlessDriver(t)
    \/ BlessFailed(t)
    \/ BlessPost(t)
    \/ BlessMetadataGet(t)
    \/ BlessMetadataUpdate(t)
    \/ BlessUpdate(t)
    \/ BlessRelaunch(t)
    \/ BlessUndo(t)
    \/ BlessUndone(t)
    \/ BlessCleanup(t)

----------------------------------------------------------------------------
(* launch_instance *)

\* the instance whose metadata holds the image references: the instance
\* itself in a migration, the blessed instance it is launched from otherwise
LaunchSource(f) == IF f.mig THEN f.id ELSE launched_from(f.id)

\* _get_source_instance (not in a migration)
LaunchGetSource(t) ==
    /\ Running(t, "launch", "l_src")
    /\ \E ok \in BOOLEAN :
          /\ Fault(ok)
          /\ LET found == ok /\ db[launched_from(Top(t).id)].present IN
             /\ Goto(t, IF ~found THEN Raise(Top(t))
                        ELSE IF Top(t).target # NoTarget THEN At(Top(t), "l_target")
                        ELSE At(Top(t), "l_mget"))
             /\ Did(t, {}, found)
    /\ UNCHANGED <<locked_instances, cond, result, acq, db, metadata, running,
                   refresh, now, passes>>

\* if target != "0": target = str(memory_string_to_pages(target)), and on
\* ValueError a warning is logged and target = "0"
LaunchTarget(t) ==
    /\ Running(t, "launch", "l_target")
    /\ LET f == Top(t)
           r == memory_string_to_pages(f.target)
       IN /\ Goto(t, [f EXCEPT !.pc = "l_mget",
                               !.conv = r,
                               !.target = IF r.raised THEN NoTarget
                                                      ELSE Str(r.pages)])
          /\ hist' = [hist EXCEPT
                 ![t].notes = @ \cup (IF r.raised THEN {"no target"} ELSE {})]
    /\ UNCHANGED <<locked_instances, cond, result, acq, db, metadata, running,
                   refresh, now, faults, passes>>

\* db.instance_metadata_get of the source, _extract_image_refs
LaunchMetadataGet(t) ==
    /\ Running(t, "launch", "l_mget")
    /\ LET f == Top(t) IN
       \E ok \in BOOLEAN :
          /\ Fault(ok)
          /\ Goto(t, IF ~ok THEN Raise(f)
                     ELSE [f EXCEPT !.pc = IF f.mig THEN "l_upd_mig"
                                          ELSE IF f.stub THEN "l_upd_spawn"
                                          ELSE "l_net_upd",
                                    !.refs = _extract_image_refs(metadata[LaunchSource(f)])])
          /\ Did(t, {}, ok)
    /\ UNCHANGED <<locked_instances, cond, result, acq, db, metadata, running,
                   refresh, now, passes>>

\* migration: _instance_update(vm_state=MIGRATING, task_state=SPAWNING)
LaunchMigrating(t) ==
    /\ Running(t, "launch", "l_upd_mig")
    /\ LET f == Top(t) IN
       \E ok \in BOOLEAN :
          /\ Fault(ok)
          /\ _instance_update(f.id,
                 [vm_state |-> "migrating", task_state |-> "spawning"], ok)
          /\ Goto(t, IF StoreOk(f.id, ok) THEN At(f, "l_launch") ELSE Raise(f))
          /\ DidUpdate(t, f.id,
                 [vm_state |-> "migrating", task_state |-> "spawning"], ok)
    /\ UNCHANGED <<locked_instances, cond, result, acq, metadata, running,
                   refresh, now, passes>>

\* a mutant of NetworkingRecord: the first update of a launch stamps it
NetworkingRecordStamped(f) ==
    [vm_state |-> "building", task_state |-> "networking", host |-> f.host,
     launched_at |-> <<now>>]

\* a mutant of NetworkingRecord: the host is not bound
NetworkingRecordNoHost(f) ==
    [vm_state |-> "building", task_state |-> "networking"]

\* the fields of the first update of a launch that is not a migration
NetworkingRecord(f) ==
    [vm_state |-> "building", task_state |-> "networking", host |-> f.host]

\* _instance_update(vm_state=BUILDING, task_state=NETWORKING, host=self.host)
LaunchNetworking(t) ==
    /\ Running(t, "launch", "l_net_upd")
    /\ LET f == Top(t) IN
       \E ok \in BOOLEAN :
          /\ Fault(ok)
          /\ _instance_update(f.id, NetworkingRecord(f), ok)
          /\ Goto(t, IF StoreOk(f.id, ok) THEN At(f, "l_alloc") ELSE At(f, "l_net_err"))
          /\ DidUpdate(t, f.id, NetworkingRecord(f), ok)
    /\ UNCHANGED <<locked_instances, cond, result, acq, metadata, running,
                   refresh, now, passes>>

\* network_api.allocate_for_instance
LaunchAllocate(t) ==
    /\ Running(t, "launch", "l_alloc")
    /\ \E ok \in BOOLEAN :
          /\ Fault(ok)
          /\ Goto(t, IF ok THEN At(Top(t), "l_upd_spawn") ELSE At(Top(t), "l_net_err"))
          /\ Did(t, {"rpc"}, ok)
    /\ UNCHANGED <<locked_instances, cond, result, acq, db, metadata, running,
                   refresh, now, passes>>

\* network allocation failed: mark the instance ERROR, re-raise
LaunchNetworkFailed(t) ==
    /\ Running(t, "launch", "l_net_err")
    /\ LET f == Top(t) IN
       \E ok \in BOOLEAN :
          /\ Fault(ok)
          /\ _instance_update(f.id, [vm_state |-> "error", task_state |-> None], ok)
          /\ DidUpdate(t, f.id, [vm_state |-> "error", task_state |-> None], ok)
    /\ Goto(t, Raise(Top(t)))
    /\ UNCHANGED <<locked_instances, cond, result, acq, metadata, running,
                   refresh, now, passes>>

\* _instance_update(vm_state=BUILDING, task_state=SPAWNING)
LaunchSpawning(t) ==
    /\ Running(t, "launch", "l_upd_spawn")
    /\ LET f == Top(t) IN
       \E ok \in BOOLEAN :
          /\ Fault(ok)
          /\ _instance_update(f.id,
                 [vm_state |-> "building", task_state |-> "spawning"], ok)
          /\ Goto(t, IF StoreOk(f.id, ok) THEN At(f, "l_prelive") ELSE Raise(f))
          /\ DidUpdate(t, f.id,
                 [vm_state |-> "building", task_state |-> "spawning"], ok)
    /\ UNCHANGED <<locked_instances, cond, result, acq, metadata, running,
                   refresh, now, passes>>

\* rpc.call pre_live_migration to this host's compute queue (not in a migration)
LaunchPreLive(t) ==
    /\ Running(t, "launch", "l_prelive")
    /\ \E ok \in BOOLEAN :
          /\ Fault(ok)
          /\ Goto(t, IF ok THEN At(Top(t), "l_launch") ELSE At(Top(t), "l_err"))
          /\ Did(t, {"rpc"}, ok)
    /\ UNCHANGED <<locked_instances, cond, result, acq, db, metadata, running,
                   refresh, now, passes>>

\* a mutant of LaunchRaised: the error is re-raised without marking ERROR
LaunchRaisedBare(f) == Raise(f)

\* except of the launch: mark ERROR unless in a migration, then re-raise
LaunchRaised(f) == IF f.mig THEN Raise(f) ELSE At(f, "l_err")

\* vms_conn.launch, then (not in a migration) _notify, whose emission may
\* fail (sent false)
LaunchDriver(t) ==
    /\ Running(t, "launch", "l_launch")
    /\ LET f == Top(t) IN
       \E ok, sent \in BOOLEAN :
          /\ sent \/ (ok /\ ~f.mig)
          /\ Fault(ok /\ sent)
          /\ running' = IF ok THEN [running EXCEPT ![f.host] = @ \cup {f.id}]
                        ELSE running
          /\ Goto(t, IF ~ok THEN LaunchRaised(f)
                     ELSE IF f.mig THEN At(f, "l_final")
                     ELSE BestEffort(f, sent, "l_final"))
          /\ hist' = [hist EXCEPT
                 ![t].effects = @ \cup {"driver", "launch"},
                 ![t].failed = @ \/ ~ok,
                 ![t].notes = @ \cup (IF ~ok THEN {"launch failed"}
                                      ELSE IF ~f.mig THEN {"launch"} ELSE {})
                                \cup (IF sent THEN {} ELSE {"notify failed"})]
    /\ UNCHANGED <<locked_instances, cond, result, acq, db, metadata, refresh,
                   now, passes>>

\* the launch failed, not in a migration: mark the instance ERROR, re-raise
LaunchFailed(t) ==
    /\ Running(t, "launch", "l_err")
    /\ LET f == Top(t) IN
       \E ok \in BOOLEAN :
          /\ Fault(ok)
          /\ _instance_update(f.id, [vm_state |-> "error", task_state |-> None], ok)
          /\ DidUpdate(t, f.id, [vm_state |-> "error", task_state |-> None], ok)
    /\ Goto(t, Raise(Top(t)))
    /\ UNCHANGED <<locked_instances, cond, result, acq, metadata, running,
                   refresh, now, passes>>

\* the fields of the final update of a launch
LaunchedRecord(f) ==
    [vm_state |-> "active", host |-> f.host, launched_at |-> <<now>>,
     task_state |-> None]

\* a mutant of LaunchUpdateFailed: the failure of the final update is raised
LaunchUpdateRaised(f) == Raise(f)

\* except: _log_error("post launch update"), and the function returns
LaunchUpdateFailed(f) == At(f, "unlock")

\* the final _instance_update; its failure is logged and not raised
LaunchFinal(t) ==
    /\ Running(t, "launch", "l_final")
    /\ LET f == Top(t) IN
       \E ok \in BOOLEAN :
          /\ Fault(ok)
          /\ _instance_update(f.id, LaunchedRecord(f), ok)
          /\ hist' = [hist EXCEPT
                 ![t].effects = @ \cup (IF StoreOk(f.id, ok) THEN {"record"} ELSE {}),
                 ![t].failed = @ \/ ~StoreOk(f.id, ok),
                 ![t].notes = @ \cup (IF StoreOk(f.id, ok) /\ hist[t].fellback
                                      THEN {"fallback done"} ELSE {}),
                 ![t].trail = IF StoreOk(f.id, ok)
                              THEN Append(@, <<"active", None>>) ELSE @]
          /\ Goto(t, IF StoreOk(f.id, ok) THEN At(f, "unlock")
                     ELSE LaunchUpdateFailed(f))
    /\ UNCHANGED <<locked_instances, cond, result, acq, metadata, running,
                   refresh, now, passes>>

LaunchStep(t) ==
    \/ LaunchGetSource(t)
    \/ LaunchMetadataGet(t)
    \/ LaunchMigrating(t)
    \/ LaunchNetworking(t)
    \/ LaunchAllocate(t)
    \/ LaunchNetworkFailed(t)
    \/ LaunchSpawning(t)
    \/ LaunchPreLive(t)
    \/ LaunchDriver(t)
    \/ LaunchFailed(t)
    \/ LaunchFinal(t)

----------------------------------------------------------------------------
(* discard_instance: every failure propagates to the caller *)

\* db.instance_metadata_get, _extract_image_refs
DiscardMetadataGet(t) ==
    /\ Running(t, "discard", "d_mget")
    /\ LET f == Top(t) IN
       \E ok \in BOOLEAN :
          /\ Fault(ok)
          /\ Goto(t, IF ~ok THEN Raise(f)
                     ELSE [f EXCEPT !.pc = "d_discard", !.meta = metadata[f.id],
                                    !.refs = _extract_image_refs(metadata[f.id])])
          /\ Did(t, {}, ok)
    /\ UNCHANGED <<locked_instances, cond, result, acq, db, metadata, running,
                   refresh, now, passes>>

\* a mutant of DiscardRaised: the failure of the driver is swallowed
DiscardRaisedOn(f) == At(f, "d_mupd")

\* no try around vms_conn.discard: its exception leaves discard_instance
DiscardRaised(f) == Raise(f)

\* vms_conn.discard
DiscardDriver(t) ==
    /\ Running(t, "discard", "d_discard")
    /\ \E ok \in BOOLEAN :
          /\ Fault(ok)
          /\ Goto(t, IF ok THEN At(Top(t), "d_mupd") ELSE DiscardRaised(Top(t)))
          /\ hist' = [hist EXCEPT
                 ![t].effects = @ \cup {"driver", "discard"},
                 ![t].failed = @ \/ ~ok,
                 ![t].notes = @ \cup (IF ok THEN {} ELSE {"discard failed"})]
    /\ UNCHANGED <<locked_instances, cond, result, acq, db, metadata, running,
                   refresh, now, passes>>

\* metadata['blessed'] = False; db.instance_metadata_update
DiscardMetadataUpdate(t) ==
    /\ Running(t, "discard", "d_mupd")
    /\ LET f == Top(t) IN
       \E ok \in BOOLEAN :
          /\ Fault(ok)
          /\ metadata' = IF ok THEN [metadata EXCEPT ![f.id] =
                                  [f.meta EXCEPT !.keys = @ \cup {"blessed"},
                                                 !.blessed = FALSE]]
                         ELSE metadata
          /\ Goto(t, IF ok THEN At(f, "d_upd") ELSE Raise(f))
          /\ Did(t, IF ok THEN {"meta"} ELSE {}, ok)
    /\ UNCHANGED <<locked_instances, cond, result, acq, db, running, refresh,
                   now, passes>>

\* a mutant of DiscardedRecord: terminated_at is not stamped
DiscardedRecordNoStamp == [vm_state |-> "deleted", task_state |-> None]

\* the fields written by a discard before the record is destroyed
DiscardedRecord ==
    [vm_state |-> "deleted", task_state |-> None, terminated_at |-> <<now>>]

\* _instance_update(vm_state=DELETED, task_state=None, terminated_at=utcnow())
DiscardUpdate(t) ==
    /\ Running(t, "discard", "d_upd")
    /\ LET f == Top(t) IN
       \E ok \in BOOLEAN :
          /\ Fault(ok)
          /\ _instance_update(f.id, DiscardedRecord, ok)
          /\ Goto(t, IF StoreOk(f.id, ok) THEN At(f, "d_destroy") ELSE Raise(f))
          /\ DidUpdate(t, f.id, DiscardedRecord, ok)
    /\ UNCHANGED <<locked_instances, cond, result, acq, metadata, running,
                   refresh, now, passes>>

\* db.instance_destroy, then _notify, whose emission may fail (sent false)
DiscardDestroy(t) ==
    /\ Running(t, "discard", "d_destroy")
    /\ LET f == Top(t) IN
       \E ok, sent \in BOOLEAN :
          /\ sent \/ StoreOk(f.id, ok)
          /\ Fault(ok /\ sent)
          /\ db' = IF StoreOk(f.id, ok) THEN [db EXCEPT ![f.id].present = FALSE] ELSE db
          /\ Goto(t, IF StoreOk(f.id, ok) THEN BestEffort(f, sent, "unlock")
                     ELSE Raise(f))
          /\ hist' = [hist EXCEPT
                 ![t].effects = @ \cup (IF StoreOk(f.id, ok) THEN {"record"} ELSE {}),
                 ![t].failed = @ \/ ~StoreOk(f.id, ok),
                 ![t].notes = @ \cup (IF StoreOk(f.id, ok) THEN {"discard"} ELSE {})
                                \cup (IF sent THEN {} ELSE {"notify failed"})]
    /\ UNCHANGED <<locked_instances, cond, result, acq, metadata, running,
                   refresh, now, passes>>

DiscardStep(t) ==
    \/ DiscardMetadataGet(t)
    \/ DiscardDriver(t)
    \/ DiscardMetadataUpdate(t)
    \/ DiscardUpdate(t)
    \/ DiscardDestroy(t)

----------------------------------------------------------------------------
(* migrate_instance *)

\* a mutant of Rejected: the precondition is not checked
NeverRejected(f) == FALSE

\* src = instance_ref['host']; src != self.host
Rejected(f) == f.refhost # f.host

\* the precondition, checked right after the lock is taken
MigrateCheck(t) ==
    /\ Running(t, "migrate", "m_check")
    /\ Goto(t, IF Rejected(Top(t)) THEN Raise(Top(t)) ELSE At(Top(t), "m_prep"))
    /\ UNCHANGED <<locked_instances, cond, result, acq, db, metadata, running,
                   refresh, now, faults, passes, hist>>

\* _get_migration_address raises for a destination that is this host ("Can't
\* migrate to the same host"); else network_api.get_instance_nw_info is
\* called, and its failure is raised
MigratePrepare(t) ==
    /\ Running(t, "migrate", "m_prep")
    /\ LET f == Top(t) IN
       \E ok \in BOOLEAN :
          /\ Fault(ok)
          /\ Goto(t, IF ok /\ f.dest # f.host THEN At(f, "m_mget") ELSE Raise(f))
          /\ Did(t, IF f.dest # f.host THEN {"rpc"} ELSE {}, ok /\ f.dest # f.host)
    /\ UNCHANGED <<locked_instances, cond, result, acq, db, metadata, running,
                   refresh, now, passes>>

\* db.instance_metadata_get
MigrateMetadataGet(t) ==
    /\ Running(t, "migrate", "m_mget")
    /\ LET f == Top(t) IN
       \E ok \in BOOLEAN :
          /\ Fault(ok)
          /\ Goto(t, IF ok THEN [f EXCEPT !.pc = "m_mupd", !.meta = metadata[f.id]]
                     ELSE Raise(f))
          /\ Did(t, {}, ok)
    /\ UNCHANGED <<locked_instances, cond, result, acq, db, metadata, running,
                   refresh, now, passes>>

\* metadata['gc_src_host'] = self.host; metadata['gc_dst_host'] = dest
MigrateMetadataUpdate(t) ==
    /\ Running(t, "migrate", "m_mupd")
    /\ LET f == Top(t) IN
       \E ok \in BOOLEAN :
          /\ Fault(ok)
          /\ metadata' = IF ok
                         THEN [metadata EXCEPT ![f.id] =
                                  [f.meta EXCEPT
                                      !.keys = @ \cup {"gc_src_host", "gc_dst_host"},
                                      !.gc_src_host = f.host,
                                      !.gc_dst_host = f.dest]]
                         ELSE metadata
          /\ Goto(t, IF ok THEN At(f, "m_prelive") ELSE Raise(f))
          /\ Did(t, IF ok THEN {"meta"} ELSE {}, ok)
    /\ UNCHANGED <<locked_instances, cond, result, acq, db, running, refresh,
                   now, passes>>

\* rpc.call pre_live_migration at the destination, then the call of
\* bless_instance with a migration_url
MigratePreLive(t) ==
    /\ Running(t, "migrate", "m_prelive")
    /\ LET f == Top(t) IN
       \E ok \in BOOLEAN :
          /\ Fault(ok)
          /\ stack' = IF ok
                      THEN Push(stack, t, "w_bless",
                                NewFrame("bless", f.host, f.id, TRUE, f.refhost, f.dest))
                      ELSE SetTop(stack, t, Raise(f))
          /\ Did(t, {"rpc"}, ok)
    /\ UNCHANGED <<locked_instances, cond, result, acq, db, metadata, running,
                   refresh, now, passes>>

\* vms_conn.pre_migration
MigratePreMigration(t) ==
    /\ Running(t, "migrate", "m_premig")
    /\ \E ok \in BOOLEAN :
          /\ Fault(ok)
          /\ Goto(t, IF ok THEN At(Top(t), "m_rlaunch") ELSE Raise(Top(t)))
          /\ Did(t, {"driver", "pre_migration"}, ok)
    /\ UNCHANGED <<locked_instances, cond, result, acq, db, metadata, running,
                   refresh, now, passes>>

\* rpc.call launch_instance at the destination: the destination's manager
\* runs launch_instance with the migration_url, or the call is not delivered
MigrateRemoteLaunch(t) ==
    /\ Running(t, "migrate", "m_rlaunch")
    /\ LET f == Top(t) IN
       \E ok \in BOOLEAN :
          /\ Fault(ok)
          /\ stack' = IF ok
                      THEN Push(stack, t, "w_rlaunch",
                                NewFrame("launch", f.dest, f.id, TRUE, f.refhost, None))
                      ELSE SetTop(stack, t, At(f, "m_llaunch"))
          /\ Did(t, {"rpc"}, ok)
    /\ UNCHANGED <<locked_instances, cond, result, acq, db, metadata, running,
                   refresh, now, passes>>

\* the remote launch_instance returned, and the reply does not reach the caller
ReplyLost(t) ==
    /\ Len(stack[t]) > 1
    /\ stack[t][Len(stack[t]) - 1].pc = "w_rlaunch"
    /\ ~Top(t).exc
    /\ faults < MaxFaults
    /\ faults' = faults + 1
    /\ Leave(t, TRUE)
    /\ hist' = [hist EXCEPT ![t].failed = TRUE]
    /\ UNCHANGED <<cond, db, metadata, running, refresh, now, passes>>

\* except: the remote launch failed, launch_instance is called on this host
MigrateLocalLaunch(t) ==
    /\ Running(t, "migrate", "m_llaunch")
    /\ stack' = Push(stack, t, "w_llaunch",
                     NewFrame("launch", Top(t).host, Top(t).id, TRUE,
                              Top(t).refhost, None))
    /\ hist' = [hist EXCEPT ![t].fellback = TRUE]
    /\ UNCHANGED <<locked_instances, cond, result, acq, db, metadata, running,
                   refresh, now, faults, passes>>

\* vms_conn.post_migration, a failure only logged
MigratePostMigration(t) ==
    /\ Running(t, "migrate", "m_postmig")
    /\ \E ok \in BOOLEAN :
          /\ Fault(ok)
          /\ Did(t, {"driver", "post_migration"}, ok)
          /\ Goto(t, BestEffort(Top(t), ok, IF Top(t).changed THEN "m_cleanup"
                                                              ELSE "m_mget2"))
    /\ UNCHANGED <<locked_instances, cond, result, acq, db, metadata, running,
                   refresh, now, passes>>

\* changed_hosts: rollback_live_migration_at_destination on this host and
\* _migration_reconfigure_networks, failures only logged
MigrateCleanup(t) ==
    /\ Running(t, "migrate", "m_cleanup")
    /\ \E ok \in BOOLEAN :
          /\ Fault(ok)
          /\ Did(t, {"rpc"}, ok)
          /\ Goto(t, BestEffort(Top(t), ok, "m_mget2"))
    /\ UNCHANGED <<locked_instances, cond, result, acq, db, metadata, running,
                   refresh, now, passes>>

\* db.instance_metadata_get, _extract_image_refs
MigrateMetadataGet2(t) ==
    /\ Running(t, "migrate", "m_mget2")
    /\ LET f == Top(t) IN
       \E ok \in BOOLEAN :
          /\ Fault(ok)
          /\ Goto(t, IF ok THEN [f EXCEPT !.pc = "m_discard",
                                          !.refs = _extract_image_refs(metadata[f.id])]
                     ELSE Raise(f))
          /\ Did(t, {}, ok)
    /\ UNCHANGED <<locked_instances, cond, result, acq, db, metadata, running,
                   refresh, now, passes>>

\* vms_conn.discard of the migration artifacts
MigrateDiscard(t) ==
    /\ Running(t, "migrate", "m_discard")
    /\ \E ok \in BOOLEAN :
          /\ Fault(ok)
          /\ Goto(t, IF ok THEN At(Top(t), "unlock") ELSE Raise(Top(t)))
          /\ Did(t, {"driver", "discard"}, ok)
    /\ UNCHANGED <<locked_instances, cond, result, acq, db, metadata, running,
                   refresh, now, passes>>

MigrateStep(t) ==
    \/ MigrateCheck(t)
    \/ MigratePrepare(t)
    \/ MigrateMetadataGet(t)
    \/ MigrateMetadataUpdate(t)
    \/ MigratePreLive(t)
    \/ MigratePreMigration(t)
    \/ MigrateRemoteLaunch(t)
    \/ ReplyLost(t)
    \/ MigrateLocalLaunch(t)
    \/ MigratePostMigration(t)
    \/ MigrateCleanup(t)
    \/ MigrateMetadataGet2(t)
    \/ MigrateDiscard(t)

----------------------------------------------------------------------------
(* _refresh_host: the reconciliation pass of one host's manager.  It holds  *)
(* the condition lock from start to end.                                    *)

\* a mutant of Skipped: the pass does not look at the lock table
NeverSkipped(h, i) == FALSE

\* if instance.id in self.locked_instances: continue
Skipped(h, i) == i \in DOMAIN locked_instances[h]

\* a mutant of Reconciled: a VM found here is left alone
ReconciledNotHere(h, here, src, dst) ==
    IF here
    THEN [state |-> None, host |-> h, reconf |-> FALSE]
    ELSE IF h = src THEN [state |-> "migrating", host |-> dst, reconf |-> FALSE]
         ELSE IF h = dst THEN [state |-> "error", host |-> h, reconf |-> FALSE]
         ELSE [state |-> None, host |-> h, reconf |-> FALSE]

\* a mutant of Reconciled: the source keeps an instance that has left it
ReconciledKeepsHost(h, here, src, dst) ==
    IF here
    THEN IF h = src THEN [state |-> "active", host |-> h, reconf |-> FALSE]
         ELSE IF h = dst THEN [state |-> "active", host |-> h, reconf |-> TRUE]
         ELSE [state |-> None, host |-> h, reconf |-> FALSE]
    ELSE IF h = src THEN [state |-> "migrating", host |-> h, reconf |-> FALSE]
         ELSE IF h = dst THEN [state |-> "error", host |-> h, reconf |-> FALSE]
         ELSE [state |-> None, host |-> h, reconf |-> FALSE]

\* a mutant of Reconciled: an instance this host has no role for is marked
ReconciledAnyRole(h, here, src, dst) ==
    IF here
    THEN IF h = src THEN [state |-> "active", host |-> h, reconf |-> FALSE]
         ELSE IF h = dst THEN [state |-> "active", host |-> h, reconf |-> TRUE]
         ELSE [state |-> "active", host |-> h, reconf |-> FALSE]
    ELSE IF h = src THEN [state |-> "migrating", host |-> dst, reconf |-> FALSE]
         ELSE IF h = dst THEN [state |-> "error", host |-> h, reconf |-> FALSE]
         ELSE [state |-> "error", host |-> h, reconf |-> FALSE]

\* the new (vm_state, host) of a MIGRATING instance; state None: no update
Reconciled(h, here, src, dst) ==
    IF here
    THEN IF h = src THEN [state |-> "active", host |-> h, reconf |-> FALSE]
         ELSE IF h = dst THEN [state |-> "active", host |-> h, reconf |-> TRUE]
         ELSE [state |-> None, host |-> h, reconf |-> FALSE]
    ELSE IF h = src THEN [state |-> "migrating", host |-> dst, reconf |-> FALSE]
         ELSE IF h = dst THEN [state |-> "error", host |-> h, reconf |-> FALSE]
         ELSE [state |-> None, host |-> h, reconf |-> FALSE]

\* cond.acquire(); db.instance_get_all_by_host; driver.list_instances().
\* The loop does nothing for an instance that is not MIGRATING: todo keeps
\* the MIGRATING ones.
Scan(h) ==
    /\ refresh[h].pc = "idle"
    /\ cond[h] = NoOne
    /\ cond' = [cond EXCEPT ![h] = "refresh"]
    /\ refresh' = [refresh EXCEPT ![h] =
           [IdleRefresh EXCEPT
               !.pc = "scan",
               !.todo = {i \in Ids : /\ db[i].present /\ db[i].host = h
                                      /\ db[i].vm_state = "migrating"},
               !.local = running[h]]]
    /\ UNCHANGED <<locked_instances, stack, result, acq, db, metadata, running,
                   now, faults, hist>>

\* a pass starts; the passes of one behaviour are bounded
RefreshStart(h) ==
    /\ passes < MaxPasses
    /\ passes' = passes + 1
    /\ Scan(h)

\* the next MIGRATING instance of db_instances: skipped when locked, else its
\* metadata is read and the new state worked out
RefreshExamine(h) ==
    /\ refresh[h].pc = "scan"
    /\ refresh[h].todo # {}
    /\ LET r == refresh[h]
           i == CHOOSE j \in r.todo : \A k \in r.todo : j <= k
           rest == [r EXCEPT !.todo = @ \ {i}]
       IN IF Skipped(h, i)
          THEN /\ refresh' = [refresh EXCEPT ![h] = rest]
               /\ UNCHANGED <<cond, faults>>
          ELSE \E ok \in BOOLEAN :
                  /\ Fault(ok)
                  /\ IF ok
                     THEN LET n == Reconciled(h, i \in r.local,
                                              metadata[i].gc_src_host,
                                              metadata[i].gc_dst_host)
                          IN /\ refresh' = [refresh EXCEPT ![h] =
                                    [rest EXCEPT !.cur = i, !.state = n.state,
                                                 !.host = n.host,
                                                 !.src = metadata[i].gc_src_host,
                                                 !.dst = metadata[i].gc_dst_host,
                                                 !.reconf = None,
                                                 !.pc = IF n.reconf THEN "reconf"
                                                        ELSE IF n.state # None THEN "update"
                                                        ELSE "scan"]]
                             /\ UNCHANGED cond
                     ELSE /\ refresh' = [refresh EXCEPT ![h] = IdleRefresh]
                          /\ cond' = [cond EXCEPT ![h] = NoOne]
    /\ UNCHANGED <<locked_instances, stack, result, acq, db, metadata, running,
                   now, passes, hist>>

\* _migration_reconfigure_networks(context, instance.id, src_host); an
\* exception ends the pass
RefreshReconfigure(h) ==
    /\ refresh[h].pc = "reconf"
    /\ \E ok \in BOOLEAN :
          /\ Fault(ok)
          /\ IF ok
             THEN /\ refresh' = [refresh EXCEPT ![h].pc = "update",
                                                ![h].reconf = refresh[h].src]
                  /\ UNCHANGED cond
             ELSE /\ refresh' = [refresh EXCEPT ![h] = IdleRefresh]
                  /\ cond' = [cond EXCEPT ![h] = NoOne]
    /\ UNCHANGED <<locked_instances, stack, result, acq, db, metadata, running,
                   now, passes, hist>>

\* _instance_update(instance.id, vm_state=state, host=host)
RefreshUpdate(h) ==
    /\ refresh[h].pc = "update"
    /\ LET r == refresh[h] IN
       \E ok \in BOOLEAN :
          /\ Fault(ok)
          /\ _instance_update(r.cur, [vm_state |-> r.state, host |-> r.host], ok)
          /\ IF StoreOk(r.cur, ok)
             THEN /\ refresh' = [refresh EXCEPT ![h] =
                         [r EXCEPT !.pc = "scan", !.cur = None,
                                   !.state = None, !.host = None,
                                   !.src = None, !.dst = None,
                                   !.reconf = None]]
                  /\ UNCHANGED cond
             ELSE /\ refresh' = [refresh EXCEPT ![h] = IdleRefresh]
                  /\ cond' = [cond EXCEPT ![h] = NoOne]
    /\ UNCHANGED <<locked_instances, stack, result, acq, metadata, running,
                   now, passes, hist>>

\* finally: cond.release()
RefreshEnd(h) ==
    /\ refresh[h].pc = "scan"
    /\ refresh[h].todo = {}
    /\ refresh' = [refresh EXCEPT ![h] = IdleRefresh]
    /\ cond' = [cond EXCEPT ![h] = NoOne]
    /\ UNCHANGED <<locked_instances, stack, result, acq, db, metadata, running,
                   now, faults, passes, hist>>

RefreshStep(h) ==
    \/ RefreshStart(h)
    \/ RefreshExamine(h)
    \/ RefreshReconfigure(h)
    \/ RefreshUpdate(h)
    \/ RefreshEnd(h)

----------------------------------------------------------------------------
(* The manager: requests, the four protocols and the reconciliation pass.   *)

Next ==
    \/ \E t \in Tasks :
          \/ Request(t)
          \/ _lock_instance(t)
          \/ _unlock_instance(t)
          \/ BlessStep(t)
          \/ LaunchStep(t)
          \/ DiscardStep(t)
          \/ MigrateStep(t)
    \/ \E h \in Hosts : RefreshStep(h)

Spec == Init /\ [][Next]_vars

----------------------------------------------------------------------------
(* The lock-manager harness: greenlets that call a wrapped function whose   *)
(* body only calls wrapped functions on the same instance (as               *)
(* migrate_instance calls bless_instance and launch_instance) and returns.  *)

HarnessIds == {1, 2}

StartHold(t) ==
    /\ stack[t] = <<>>
    /\ \E i \in HarnessIds :
          stack' = [stack EXCEPT ![t] = <<NewFrame("hold", "h1", i, FALSE, None, None)>>]
    /\ UNCHANGED <<locked_instances, cond, result, acq, db, metadata, running,
                   refresh, now, faults, passes, hist>>

HoldNest(t) ==
    /\ Running(t, "hold", "h_body")
    /\ Len(stack[t]) < MaxDepth
    /\ stack' = Push(stack, t, "w_hold",
                     NewFrame("hold", Top(t).host, Top(t).id, FALSE, None, None))
    /\ UNCHANGED <<locked_instances, cond, result, acq, db, metadata, running,
                   refresh, now, faults, passes, hist>>

HoldReturn(t) ==
    /\ Running(t, "hold", "h_body")
    /\ stack' = SetTop(stack, t, [Top(t) EXCEPT !.pc = "unlock"])
    /\ UNCHANGED <<locked_instances, cond, result, acq, db, metadata, running,
                   refresh, now, faults, passes, hist>>

NextLock ==
    \E t \in AllTasks :
        \/ StartHold(t)
        \/ _lock_instance(t)
        \/ HoldNest(t)
        \/ HoldReturn(t)
        \/ _unlock_instance(t)

SpecLock == Init /\ [][NextLock]_vars

FairSpecLock ==
    /\ SpecLock
    /\ \A t \in AllTasks :
          /\ WF_vars(_lock_instance(t))
          /\ WF_vars(HoldReturn(t))
          /\ WF_vars(_unlock_instance(t))

----------------------------------------------------------------------------
(* Claims about the lock manager, checked under SpecLock / FairSpecLock.    *)

Holds(h, i) == i \in DOMAIN locked_instances[h]

\* greenlet t is inside _lock_instance(i): about to test the entry, or waiting
InLock(t, i) ==
    stack[t] # <<>> /\ Top(t).id = i /\ Top(t).pc \in {"lock", "wait"}

\* C1: each instance id has at most one owner; the entry's count is the
\* owner's acquisitions minus its releases and is at least 1; every other
\* greenlet has as many releases as acquisitions of that id, and so has
\* everybody when there is no entry.
C1_OneOwnerCounted ==
    \A h \in Hosts, i \in ReqIds :
        IF Holds(h, i)
        THEN LET e == locked_instances[h][i]
             IN /\ e[1] \in AllTasks
                /\ e[2] >= 1
                /\ acq[e[1]][h][i] = e[2]
                /\ \A t \in AllTasks \ {e[1]} : acq[t][h][i] = 0
        ELSE \A t \in AllTasks : acq[t][h][i] = 0

\* a greenlet holds an id twice while another one waits for that id
C1_Witness ==
    \E t, u \in AllTasks :
        /\ t # u
        /\ Holds("h1", 1)
        /\ locked_instances["h1"][1] = <<t, 2>>
        /\ stack[u] # <<>> /\ Top(u).pc = "wait" /\ Top(u).id = 1

\* C5: no greenlet stays forever inside _lock_instance(i) while the entry of
\* i is free: again and again either the entry is taken or the greenlet is
\* not (or no longer) trying to take it.
C5_NoLostWakeup ==
    \A t \in AllTasks : \A i \in HarnessIds :
        []<>(~(InLock(t, i) /\ ~Holds("h1", i)))

\* two greenlets that waited for the same id have been woken by its release
C5_Witness ==
    \E t, u \in AllTasks :
        /\ t # u
        /\ InLock(t, 1) /\ Top(t).pc = "lock" /\ Top(t).waited
        /\ InLock(u, 1) /\ Top(u).pc = "lock" /\ Top(u).waited
        /\ ~Holds("h1", 1)

----------------------------------------------------------------------------
(* Claims about the protocols, checked under Spec.                          *)

\* the positions from which the next step of a call is a driver call
DriverPcs ==
    {"b_bless", "b_post", "b_relaunch", "b_undo", "b_cleanup", "l_launch",
     "d_discard", "m_premig", "m_postmig", "m_discard"}

AtDriver(t) == stack[t] # <<>> /\ Top(t).pc \in DriverPcs

Owns(t, h, i) == Holds(h, i) /\ locked_instances[h][i][1] = t

\* the calls of t on (h, i) that are between their acquisition and release
Active(t, h, i) ==
    {k \in 1..Len(stack[t]) :
        /\ stack[t][k].host = h
        /\ stack[t][k].id = i
        /\ stack[t][k].pc \notin {"lock", "wait"}}

\* C2, as stated: every driver call of an operation happens while the
\* operation holds the instance lock, and while an operation that makes driver
\* calls holds the lock of an id (on whatever host), no other operation is
\* about to make a driver call on that id.
C2_NeverInterleaved ==
    \A t \in Tasks :
        AtDriver(t) =>
            /\ Owns(t, Top(t).host, Top(t).id)
            /\ \A u \in Tasks \ {t} :
                  ~(/\ "driver" \in hist[u].effects
                    /\ \E h \in Hosts : Owns(u, h, Top(t).id))

\* C2, amended: the lock is local to one manager.  Every driver call of an
\* operation happens while the operation owns the entry of the instance on
\* the host that makes the call, and no other operation is about to make a
\* driver call on that instance on that host.
C2_NeverInterleavedOnHost ==
    \A t \in Tasks :
        AtDriver(t) =>
            /\ Owns(t, Top(t).host, Top(t).id)
            /\ \A u \in Tasks \ {t} :
                  ~(/\ AtDriver(u)
                    /\ Top(u).host = Top(t).host
                    /\ Top(u).id = Top(t).id)

\* an operation that has made a driver call is about to make another one
\* while a second operation on the same instance waits for the lock
C2_Witness ==
    \E t, u \in Tasks :
        /\ t # u
        /\ AtDriver(t) /\ "driver" \in hist[t].effects
        /\ stack[u] # <<>> /\ Top(u).pc = "wait"
        /\ Top(u).host = Top(t).host /\ Top(u).id = Top(t).id

\* C3: the entry of (host, id) is owned by t with a count equal to the number
\* of t's calls on it that are between acquisition and release, and is not
\* t's when there is none: a call that returned or raised has given back what
\* it took, and a request that was not found has taken nothing.
C3_LockRestored ==
    \A t \in Tasks, h \in Hosts, i \in ReqIds :
        IF Active(t, h, i) = {}
        THEN ~Owns(t, h, i)
        ELSE Owns(t, h, i) /\ locked_instances[h][i][2] = Cardinality(Active(t, h, i))

\* one call has raised after a driver call, another one was not found
C3_Witness ==
    \E t, u \in Tasks :
        /\ result[t] = "error" /\ "driver" \in hist[t].effects
        /\ result[u] = "notfound"

\* C4: when a reconciliation pass is about to reconfigure or update an
\* instance, the instance is not in the lock table of its manager.
C4_LockedNeverWritten ==
    \A h \in Hosts :
        refresh[h].pc \in {"reconf", "update"} => ~Holds(h, refresh[h].cur)

\* a pass is about to update an instance while an operation on that instance
\* is at _lock_instance on the same host, kept out by the condition lock
C4_Witness ==
    \E h \in Hosts, t \in Tasks :
        /\ refresh[h].pc = "update"
        /\ stack[t] # <<>> /\ Top(t).pc = "lock"
        /\ Top(t).host = h /\ Top(t).id = refresh[h].cur

\* C6: a migrate request that waited for the lock at the instance's host and
\* finds the instance moved when it gets the lock has no effect (no hint
\* written, no remote call, no driver call) and does not succeed.
C6_SecondMigrateRejected ==
    \A t \in Tasks :
        hist[t].moved => hist[t].effects = {} /\ result[t] # "ok"

\* C7: a migrate request on a host that is not the recorded host of the
\* instance stops at the precondition: it has no effect and ends in an error.
C7_WrongHostRejected ==
    \A t \in Tasks :
        (/\ hist[t].fn = "migrate"
         /\ hist[t].refhost # None
         /\ hist[t].refhost # hist[t].host)
        => /\ hist[t].effects = {}
           /\ result[t] \in {"idle", "error"}
           /\ stack[t] # <<>> =>
                 /\ Len(stack[t]) = 1
                 /\ Top(t).pc \in {"lock", "wait", "m_check", "unlock"}
                 /\ Top(t).pc = "unlock" => Top(t).exc

\* a migrate request on the wrong host has ended in an error
C7_Witness ==
    \E t \in Tasks :
        /\ hist[t].fn = "migrate"
        /\ hist[t].refhost # None
        /\ hist[t].refhost # hist[t].host
        /\ result[t] = "error"

\* C8: once the local launch that replaced a failed remote launch has
\* succeeded (its final update stored), the record is ACTIVE on the source
\* host, until migrate_instance ends.
C8_FallbackActiveOnSource ==
    \A t \in Tasks :
        (/\ Len(stack[t]) = 1
         /\ Top(t).fn = "migrate"
         /\ Top(t).pc \in {"m_postmig", "m_mget2", "m_discard", "unlock"}
         /\ ~Top(t).changed
         /\ "fallback done" \in hist[t].notes)
        => /\ db[Top(t).id].vm_state = "active"
           /\ db[Top(t).id].host = Top(t).host

\* the image references a bless stored, as the string the store must hold
ExpectedImages(refs) == IF refs = <<>> THEN <<>> ELSE <<"b", ",", "a">>

\* C9: when a bless that is not a migration is about to return and none of
\* its external calls failed, the record is BLESSED with no task_state, with
\* disable_terminate true and launched_at stamped not before the start of the
\* call; the metadata has blessed true and images the comma-join of the
\* references post_bless returned.
C9_BlessSucceeded ==
    \A t \in Tasks :
        (/\ Len(stack[t]) = 1
         /\ Top(t).fn = "bless" /\ ~Top(t).mig
         /\ Top(t).pc = "unlock" /\ ~Top(t).exc
         /\ ~hist[t].failed)
        => LET r == db[Top(t).id]
               m == metadata[Top(t).id]
           IN /\ r.vm_state = "blessed"
              /\ r.task_state = None
              /\ r.disable_terminate
              /\ r.launched_at # <<>>
              /\ r.launched_at[1] >= hist[t].start
              /\ {"images", "blessed"} \subseteq m.keys
              /\ m.blessed
              /\ m.images = ExpectedImages(Top(t).refs)

\* a bless has succeeded with two references from post_bless
C9_Witness ==
    \E t \in Tasks :
        /\ Len(stack[t]) = 1
        /\ Top(t).fn = "bless" /\ ~Top(t).mig
        /\ Top(t).pc = "unlock" /\ ~Top(t).exc
        /\ ~hist[t].failed
        /\ Len(Top(t).refs) = 2

\* C10: when the driver's bless call failed in a bless that is not a
\* migration and the store took the ERROR update, the call raises, the record
\* is ERROR with no task_state, with launched_at unset and disable_terminate
\* true; the call wrote no metadata, so (no other call having written any)
\* the metadata has neither images nor blessed; and post_bless, discard and
\* launch were not called.
C10_BlessFailed ==
    \A t \in Tasks :
        (/\ Len(stack[t]) = 1
         /\ Top(t).fn = "bless" /\ ~Top(t).mig
         /\ Top(t).pc = "unlock"
         /\ "bless failed" \in hist[t].notes
         /\ "update failed" \notin hist[t].notes)
        => LET r == db[Top(t).id]
               m == metadata[Top(t).id]
           IN /\ Top(t).exc
              /\ r.vm_state = "error"
              /\ r.task_state = None
              /\ r.launched_at = <<>>
              /\ r.disable_terminate
              /\ "meta" \notin hist[t].effects
              /\ (\A u \in Tasks \ {t} :
                     hist[u].fn # None /\ hist[u].id = hist[t].id
                        => "meta" \notin hist[u].effects)
                 => m.keys \cap {"images", "blessed"} = {}
              /\ hist[t].effects \cap {"post_bless", "discard", "launch"} = {}

\* a bless whose driver call failed has stored ERROR and is about to raise
C10_Witness ==
    \E t \in Tasks :
        /\ Len(stack[t]) = 1
        /\ Top(t).fn = "bless" /\ ~Top(t).mig
        /\ Top(t).pc = "unlock" /\ Top(t).exc
        /\ "bless failed" \in hist[t].notes
        /\ "update failed" \notin hist[t].notes
        /\ db[Top(t).id].vm_state = "error"

----------------------------------------------------------------------------
(* Claims about what a call leaves of the record it found.                  *)

\* the body of the call on top of t's stack has started and not yet returned
InBody(t, fn) ==
    stack[t] # <<>> /\ Top(t).fn = fn /\ Top(t).pc \notin {"lock", "wait"}

\* no other request names the instance of t's request
Alone(t) ==
    \A u \in Tasks \ {t} : hist[u].fn = None \/ hist[u].id # hist[t].id

\* the steps of a bless in a migration write nothing of the record, and of
\* the tag metadata they write only images; a failed bless call of the driver
\* goes straight to the raise, writing nothing
BlessWritesOnlyImages ==
    \A t \in Tasks :
        (InBody(t, "bless") /\ Top(t).mig /\ stack'[t] # stack[t])
        => LET f == Top(t) IN
           /\ db' = db
           /\ \A i \in Ids \ {f.id} : metadata'[i] = metadata[i]
           /\ metadata'[f.id].keys \ {"images"} = metadata[f.id].keys \ {"images"}
           /\ metadata'[f.id].blessed = metadata[f.id].blessed
           /\ metadata'[f.id].gc_src_host = metadata[f.id].gc_src_host
           /\ metadata'[f.id].gc_dst_host = metadata[f.id].gc_dst_host
           /\ (f.pc = "b_bless" /\ "bless failed" \in hist'[t].notes) =>
                 /\ stack'[t][Len(stack'[t])].pc = "unlock"
                 /\ stack'[t][Len(stack'[t])].exc
                 /\ metadata' = metadata

\* while a bless in a migration runs, and no other request names the
\* instance, the record and the metadata other than images are what they
\* were when the call started
BlessLeavesRecord ==
    \A t \in Tasks :
        (InBody(t, "bless") /\ Top(t).mig /\ Alone(t))
        => LET f == Top(t)
               r == db[f.id]
               m == metadata[f.id]
           IN /\ r.vm_state = f.pre.vm_state
              /\ r.task_state = f.pre.task_state
              /\ r.launched_at = f.pre.launched_at
              /\ r.disable_terminate = f.pre.disable_terminate
              /\ m.keys \ {"images"} = f.premeta.keys \ {"images"}
              /\ m.blessed = f.premeta.blessed
              /\ "bless failed" \in hist[t].notes =>
                    /\ f.pc = "unlock" /\ f.exc
                    /\ m = f.premeta
                    /\ hist[t].effects \cap
                          {"post_bless", "launch", "discard", "bless_cleanup"} = {}
              /\ (f.pc = "unlock" /\ ~f.exc /\ ~hist[t].failed) =>
                    /\ "images" \in m.keys
                    /\ m.images = ExpectedImages(f.refs)

\* C11: a bless in a migration never writes vm_state, task_state, launched_at
\* or disable_terminate, on success or when the driver's bless fails (the
\* error is re-raised with nothing written); of the tag metadata it writes
\* only images, never the blessed flag.  So, no other request touching the
\* instance, these fields are after the call what they were before it.
C11_MigrationBlessFrame ==
    []BlessLeavesRecord /\ [][BlessWritesOnlyImages]_vars

\* a bless in a migration is about to return, no external call having
\* failed, with two references from post_bless stored
C11_Witness ==
    \E t \in Tasks :
        /\ InBody(t, "bless") /\ Top(t).mig
        /\ Top(t).pc = "unlock" /\ ~Top(t).exc
        /\ ~hist[t].failed
        /\ Len(Top(t).refs) = 2
        /\ "blessed" \notin metadata[Top(t).id].keys

----------------------------------------------------------------------------
(* Claims about launch_instance.                                            *)

\* the top-level call of t is a launch that is not a migration and is about
\* to leave (return or raise)
LaunchLeaving(t) ==
    /\ Len(stack[t]) = 1
    /\ Top(t).fn = "launch" /\ ~Top(t).mig
    /\ Top(t).pc = "unlock"

\* update a was stored before update b
Before(trail, a, b) ==
    \E j, k \in 1..Len(trail) : j < k /\ trail[j] = a /\ trail[k] = b

\* C12: when a launch that is not a migration is about to return and none of
\* its external calls failed, the record is ACTIVE with no task_state, with
\* launched_at stamped not before the start of the call and host and node
\* naming the host that ran the launch; and the call stored
\* BUILDING/NETWORKING and then BUILDING/SPAWNING on the way.
C12_LaunchSucceeded ==
    \A t \in Tasks :
        (LaunchLeaving(t) /\ ~Top(t).exc /\ ~hist[t].failed)
        => LET r == db[Top(t).id] IN
           /\ r.vm_state = "active"
           /\ r.task_state = None
           /\ r.launched_at # <<>>
           /\ r.launched_at[1] >= hist[t].start
           /\ r.host = Top(t).host
           /\ r.node = Top(t).host
           /\ Before(hist[t].trail, <<"building", "networking">>,
                                    <<"building", "spawning">>)

\* C13: when the driver's launch failed in a launch that is not a migration
\* and the store took the ERROR update, the call raises, the record is ERROR
\* with no task_state and launched_at unset (as it was before the call), no
\* update of the call stored ACTIVE, and no launch notification was sent.
C13_LaunchFailed ==
    \A t \in Tasks :
        (/\ LaunchLeaving(t)
         /\ "launch failed" \in hist[t].notes
         /\ "update failed" \notin hist[t].notes)
        => LET r == db[Top(t).id] IN
           /\ Top(t).exc
           /\ r.vm_state = "error"
           /\ r.task_state = None
           /\ r.launched_at = <<>>
           /\ r.launched_at = Top(t).pre.launched_at
           /\ \A k \in 1..Len(hist[t].trail) : hist[t].trail[k][1] # "active"
           /\ "launch" \notin hist[t].notes

\* a launch whose driver call failed after the network was allocated has
\* stored ERROR and is about to raise
C13_Witness ==
    \E t \in Tasks :
        /\ LaunchLeaving(t) /\ Top(t).exc
        /\ "launch failed" \in hist[t].notes
        /\ "update failed" \notin hist[t].notes
        /\ db[Top(t).id].vm_state = "error"
        /\ <<"building", "networking">> = hist[t].trail[1]

\* the first launch of t's migration (the one sent to the destination) is
\* about to leave after its driver call failed
MigrationLaunchFailed(t) ==
    /\ stack[t] # <<>>
    /\ Top(t).fn = "launch" /\ Top(t).mig
    /\ Top(t).pc = "unlock"
    /\ ~hist[t].fellback
    /\ "launch failed" \in hist[t].notes

\* C14: when the driver's launch failed in a launch that completes a
\* migration of an ACTIVE instance, the call raises, vm_state is still what
\* it was before the call (ACTIVE), task_state is SPAWNING and the host is
\* what it was before the call, not the host of this manager.
C14_MigrationLaunchFailed ==
    \A t \in Tasks :
        (MigrationLaunchFailed(t) /\ Top(t).pre.vm_state = "active")
        => LET r == db[Top(t).id] IN
           /\ Top(t).exc
           /\ r.vm_state = "active"
           /\ r.vm_state = Top(t).pre.vm_state
           /\ r.task_state = "spawning"
           /\ r.host = Top(t).pre.host
           /\ r.host # Top(t).host

C16_LaunchedAtOnce ==
    [][\A i \in Ids :
          db[i].launched_at # <<>> => db'[i].launched_at = db[i].launched_at]_vars

----------------------------------------------------------------------------
(* Claims about discard_instance.                                           *)

\* C17: when a discard is about to return, the record is gone from the store
\* (a lookup by id finds nothing); the last state stored in it was DELETED
\* with no task_state and terminated_at stamped not before the start of the
\* call, the metadata has blessed false, and the notification was sent.  And
\* a discard whose driver call has not yet succeeded has written neither
\* metadata nor record.
C17_DiscardSucceeded ==
    \A t \in Tasks :
        /\ (/\ Len(stack[t]) = 1
            /\ Top(t).fn = "discard"
            /\ Top(t).pc = "unlock" /\ ~Top(t).exc)
           => LET r == db[Top(t).id]
                  m == metadata[Top(t).id]
              IN /\ ~r.present
                 /\ r.vm_state = "deleted"
                 /\ r.task_state = None
                 /\ r.terminated_at # <<>>
                 /\ r.terminated_at[1] >= hist[t].start
                 /\ "blessed" \in m.keys /\ ~m.blessed
                 /\ hist[t].trail = << <<"deleted", None>> >>
                 /\ "discard" \in hist[t].notes
                 /\ ~hist[t].failed
        /\ (/\ InBody(t, "discard")
            /\ Top(t).pc \in {"d_mget", "d_discard"})
           => /\ hist[t].effects \cap {"meta", "record"} = {}
              /\ db[Top(t).id] = Top(t).pre
              /\ metadata[Top(t).id] = Top(t).premeta

\* a discard of a blessed instance is about to return
C17_Witness ==
    \E t \in Tasks :
        /\ Len(stack[t]) = 1
        /\ Top(t).fn = "discard"
        /\ Top(t).pc = "unlock" /\ ~Top(t).exc
        /\ Top(t).pre.vm_state = "blessed"
        /\ Top(t).premeta.blessed
        /\ ~db[Top(t).id].present

\* C18: when the driver's discard call failed, the discard raises at once:
\* the record and the tag metadata are what they were when the call
\* started (nothing written, nothing removed), and no notification was sent.
C18_DiscardFailed ==
    \A t \in Tasks :
        (InBody(t, "discard") /\ "discard failed" \in hist[t].notes)
        => /\ Top(t).pc = "unlock" /\ Top(t).exc
           /\ db[Top(t).id] = Top(t).pre
           /\ metadata[Top(t).id] = Top(t).premeta
           /\ hist[t].effects \cap {"meta", "record"} = {}
           /\ hist[t].trail = <<>>
           /\ "discard" \notin hist[t].notes

\* a discard of a blessed instance is about to raise after its driver call
\* failed
C18_Witness ==
    \E t \in Tasks :
        /\ InBody(t, "discard") /\ "discard failed" \in hist[t].notes
        /\ Top(t).pc = "unlock" /\ Top(t).exc
        /\ db[Top(t).id].present
        /\ db[Top(t).id].vm_state = "blessed"
        /\ metadata[Top(t).id].blessed

----------------------------------------------------------------------------
(* Claims about requests on an instance that has no record.                 *)

\* the step is the arrival of a request of t that finds no record
NotFoundStep(t) ==
    /\ hist[t].fn = None
    /\ hist'[t].fn # None
    /\ ~Found(hist'[t].id)

\* C19: a bless, launch, discard or migrate on an id without a record ends
\* with the not-found outcome, distinct from the outcome of a call that
\* raised, and changes nothing: the call never starts (no frame, so no driver
\* call), it has no effect on record or metadata, it owns no lock entry and
\* has taken none; the step that rejects it leaves the store, the metadata,
\* the hypervisors and the lock tables as they were.
C19_NotFoundMutatesNothing ==
    /\ [](\A t \in Tasks :
             /\ "not found" \in hist[t].notes =>
                   /\ result[t] = "notfound"
                   /\ stack[t] = <<>>
                   /\ hist[t].effects = {}
                   /\ hist[t].trail = <<>>
                   /\ \A h \in Hosts :
                         /\ ~Owns(t, h, hist[t].id)
                         /\ acq[t][h][hist[t].id] = 0
             /\ (hist[t].fn # None /\ hist[t].id = UnknownId) =>
                   /\ "not found" \in hist[t].notes
                   /\ \A h \in Hosts : ~Holds(h, UnknownId))
    /\ [][\A t \in Tasks :
             NotFoundStep(t) =>
                /\ "not found" \in hist'[t].notes
                /\ UNCHANGED <<db, metadata, running, locked_instances, acq,
                               stack, refresh>>]_vars

\* a migrate on an id without a record has been rejected while the other
\* request is in the middle of its driver calls
C19_Witness ==
    \E t, u \in Tasks :
        /\ "not found" \in hist[t].notes
        /\ hist[t].fn = "migrate" /\ hist[t].id = UnknownId
        /\ result[t] = "notfound"
        /\ AtDriver(u) /\ "driver" \in hist[u].effects

----------------------------------------------------------------------------
(* Reconciliation of a stalled migration.  A migration of instance 1 from   *)
(* src to dst has ended leaving the record MIGRATING/SPAWNING: bound to src *)
(* (no final update of a launch was stored) or to dst (the destination's    *)
(* final update was stored, then the fallback launch on src stored          *)
(* MIGRATING again), with the VM running on src (the fallback launch        *)
(* started it), on dst (the remote launch started it), on both or on        *)
(* neither (both driver launches failed).  No request is in flight; the     *)
(* managers run their passes.                                               *)

StalledRecord(bound) == Record("migrating", "spawning", bound, <<0>>, FALSE)

\* the hints migrate_instance writes in one metadata update; a record made
\* MIGRATING by another service carries none
StalledMetadata(src, dst) ==
    IF src = None
    THEN EmptyMeta
    ELSE [EmptyMeta EXCEPT !.keys = {"images", "gc_src_host", "gc_dst_host"},
                           !.gc_src_host = src, !.gc_dst_host = dst]

\* the recorded hints: both hosts, distinct, or none
StalledHints ==
    {p \in (Hosts \cup {None}) \X (Hosts \cup {None}) :
        \/ p[1] \in Hosts /\ p[2] \in Hosts /\ p[1] # p[2]
        \/ p = <<None, None>>}

InitRefresh ==
    /\ locked_instances = [h \in Hosts |-> <<>>]
    /\ cond = [h \in Hosts |-> NoOne]
    /\ stack = [t \in AllTasks |-> <<>>]
    /\ result = [t \in AllTasks |-> "idle"]
    /\ acq = [t \in AllTasks |-> [h \in Hosts |-> [i \in ReqIds |-> 0]]]
    /\ \E p \in StalledHints, bound \in Hosts, here \in SUBSET Hosts :
          /\ db = [InitialRecords EXCEPT ![1] = StalledRecord(bound)]
          /\ metadata = [InitialMetadata EXCEPT ![1] = StalledMetadata(p[1], p[2])]
          /\ running = [h \in Hosts |-> IF h \in here THEN {1} ELSE {}]
    /\ refresh = [h \in Hosts |-> IdleRefresh]
    /\ now = 1
    /\ faults = 0
    /\ passes = 0
    /\ hist = [t \in AllTasks |-> NoHistory]

NextRefresh == \E h \in Hosts : RefreshStep(h)

SpecRefresh == InitRefresh /\ [][NextRefresh]_vars

\* the pass of h is at instance i of its list, which is not locked, is bound
\* to h and MIGRATING, and whose VM was listed as running on h
ExaminesLocal(h, i) ==
    /\ refresh[h].pc = "scan"
    /\ refresh[h].todo # {}
    /\ i \in refresh[h].todo /\ \A k \in refresh[h].todo : i <= k
    /\ ~Holds(h, i)
    /\ db[i].vm_state = "migrating" /\ db[i].host = h
    /\ i \in refresh[h].local

\* the steps of a pass on such an instance, unless an external call of the
\* pass fails (the pass then ends, back to idle): examined with h the recorded
\* source, the next step is the update to ACTIVE on h; examined with h the
\* recorded destination, the next step is the reconfiguration, made against
\* the recorded source and followed by the update to ACTIVE on h; the update
\* stores ACTIVE and h and nothing else.
ReconcilesLocal ==
    \A h \in Hosts :
        /\ \A i \in Ids :
              (/\ ExaminesLocal(h, i)
               /\ h \in {metadata[i].gc_src_host, metadata[i].gc_dst_host}
               /\ refresh'[h] # refresh[h]
               /\ refresh'[h].pc # "idle")
              => /\ refresh'[h].cur = i
                 /\ refresh'[h].state = "active"
                 /\ refresh'[h].host = h
                 /\ refresh'[h].pc = IF h = metadata[i].gc_src_host
                                     THEN "update" ELSE "reconf"
                 /\ db' = db
        /\ (/\ refresh[h].pc = "reconf"
            /\ refresh'[h] # refresh[h]
            /\ refresh'[h].pc # "idle")
           => /\ refresh'[h].pc = "update"
              /\ refresh'[h].reconf = refresh[h].src
              /\ refresh'[h].state = refresh[h].state
              /\ refresh'[h].host = refresh[h].host
              /\ refresh'[h].cur = refresh[h].cur
              /\ db' = db
        /\ (/\ refresh[h].pc = "update"
            /\ refresh'[h] # refresh[h]
            /\ refresh'[h].pc # "idle")
           => /\ db'[refresh[h].cur].vm_state = refresh[h].state
              /\ db'[refresh[h].cur].host = refresh[h].host
              /\ db' = [db EXCEPT ![refresh[h].cur].vm_state = refresh[h].state,
                                  ![refresh[h].cur].host = refresh[h].host]

\* C20: an unlocked instance recorded MIGRATING and bound to this host, whose
\* VM runs on this host, is set to ACTIVE by a pass of this host, its host
\* left as it is, when this host is the recorded source and when it is the
\* recorded destination; in the latter case the networks are first
\* reconfigured against the recorded source.  (A pass one of whose external
\* calls fails ends there.)
C20_LocalBecomesActive ==
    /\ [][ReconcilesLocal]_vars
    /\ [](\A h \in Hosts :
             (refresh[h].pc = "update" /\ refresh[h].cur \in refresh[h].local)
             => /\ refresh[h].state = "active"
                /\ refresh[h].host = h
                /\ ~Holds(h, refresh[h].cur)
                /\ h # refresh[h].src => /\ h = refresh[h].dst
                                          /\ refresh[h].reconf = refresh[h].src)

\* a pass of the recorded source has set to ACTIVE, on the source, an
\* instance whose VM runs there
C20_Witness ==
    \E h \in Hosts :
        /\ passes > 0
        /\ refresh[h].pc = "scan"
        /\ db[1].vm_state = "active" /\ db[1].host = h
        /\ metadata[1].gc_src_host = h
        /\ 1 \in running[h]

\* the pass of h is at instance i of its list, which is not locked, is bound
\* to h and MIGRATING, and whose VM was not listed as running on h
ExaminesAway(h, i) ==
    /\ refresh[h].pc = "scan"
    /\ refresh[h].todo # {}
    /\ i \in refresh[h].todo /\ \A k \in refresh[h].todo : i <= k
    /\ ~Holds(h, i)
    /\ db[i].vm_state = "migrating" /\ db[i].host = h
    /\ i \notin refresh[h].local

\* the steps of a pass on such an instance, unless an external call of the
\* pass fails: examined with h the recorded source, the next step is the
\* update to MIGRATING on the recorded destination; examined with h the
\* recorded destination, the next step is the update to ERROR on h; the
\* update stores that state and host and nothing else.
ReconcilesAway ==
    \A h \in Hosts :
        /\ \A i \in Ids :
              (/\ ExaminesAway(h, i)
               /\ h \in {metadata[i].gc_src_host, metadata[i].gc_dst_host}
               /\ refresh'[h] # refresh[h]
               /\ refresh'[h].pc # "idle")
              => /\ refresh'[h].cur = i
                 /\ refresh'[h].pc = "update"
                 /\ refresh'[h].state = IF h = metadata[i].gc_src_host
                                        THEN "migrating" ELSE "error"
                 /\ refresh'[h].host = IF h = metadata[i].gc_src_host
                                       THEN metadata[i].gc_dst_host ELSE h
                 /\ db' = db
        /\ (/\ refresh[h].pc = "update"
            /\ refresh[h].cur \notin refresh[h].local
            /\ refresh'[h] # refresh[h]
            /\ refresh'[h].pc # "idle")
           => LET i == refresh[h].cur IN
              /\ db'[i].vm_state = IF h = refresh[h].src THEN "migrating"
                                                          ELSE "error"
              /\ db'[i].host = IF h = refresh[h].src THEN refresh[h].dst ELSE h
              /\ db'[i] = [db[i] EXCEPT !.vm_state = db'[i].vm_state,
                                        !.host = db'[i].host]
              /\ \A j \in Ids \ {i} : db'[j] = db[j]

\* C21: an unlocked instance recorded MIGRATING and bound to this host, whose
\* VM is not running on this host, is handed by a pass of this host to the
\* recorded destination, still MIGRATING, when this host is the recorded
\* source, and is set to ERROR, its host left as it is, when this host is the
\* recorded destination.  (A pass one of whose external calls fails ends
\* there.)
C21_AwayHandedOnOrFailed ==
    /\ [][ReconcilesAway]_vars
    /\ [](\A h \in Hosts :
             (refresh[h].pc = "update" /\ refresh[h].cur \notin refresh[h].local)
             => /\ ~Holds(h, refresh[h].cur)
                /\ refresh[h].src # None /\ refresh[h].dst # None
                /\ h \in {refresh[h].src, refresh[h].dst}
                /\ h = refresh[h].src
                   => refresh[h].state = "migrating" /\ refresh[h].host = refresh[h].dst
                /\ h # refresh[h].src
                   => refresh[h].state = "error" /\ refresh[h].host = h)

\* a pass of the recorded source has handed an instance that does not run
\* there to the recorded destination, still MIGRATING
C21_Witness ==
    \E h \in Hosts :
        /\ passes > 0
        /\ refresh[h].pc = "scan"
        /\ db[1].vm_state = "migrating"
        /\ metadata[1].gc_src_host = h
        /\ db[1].host = metadata[1].gc_dst_host
        /\ db[1].host # h
        /\ 1 \notin refresh[h].local
        /\ 1 \notin refresh[h].todo

\* instance i is none of the pass's business: bound to another host, not
\* MIGRATING, or MIGRATING with h in neither recorded role
NotForPass(h, i) ==
    \/ db[i].host # h
    \/ db[i].vm_state # "migrating"
    \/ h \notin {metadata[i].gc_src_host, metadata[i].gc_dst_host}

\* C22: no step of a pass of host h writes any field, or the metadata, of an
\* instance that is bound to another host, or is not MIGRATING, or is
\* MIGRATING while h is neither the recorded source nor the recorded
\* destination (the hints may be absent).
C22_OthersUntouched ==
    [][\A h \in Hosts : \A i \in Ids :
          (refresh'[h] # refresh[h] /\ NotForPass(h, i))
          => db'[i] = db[i] /\ metadata'[i] = metadata[i]]_vars

\* a pass has examined, and gone past, a MIGRATING instance bound to its host
\* that carries no hints, next to records of its host that are not MIGRATING
C22_Witness ==
    \E h \in Hosts :
        /\ passes > 0
        /\ refresh[h].pc = "scan"
        /\ refresh[h].todo = {}
        /\ db[1].vm_state = "migrating" /\ db[1].host = h
        /\ metadata[1].gc_src_host = None /\ metadata[1].gc_dst_host = None
        /\ \E j \in Ids : db[j].host = h /\ db[j].vm_state # "migrating"

\* C23: no step of a reconciliation pass changes the record of an instance
\* whose task_state is non-empty.
C23_PassSparesBusy ==
    [][\A h \in Hosts : \A i \in Ids :
          (refresh'[h] # refresh[h] /\ db[i].present /\ db[i].task_state # None)
          => db'[i] = db[i]]_vars

\* the original statement of C24, for the instances a request of the manager
\* has ended on: disable_terminate is true if and only if vm_state is BLESSED
C24_ProtectedIffBlessed ==
    \A t \in Tasks : \A i \in Ids :
        (hist[t].fn # None /\ hist[t].id = i /\ stack[t] = <<>> /\ db[i].present)
        => (db[i].disable_terminate <=> db[i].vm_state = "blessed")

\* C24 (amended): a record whose vm_state is BLESSED has disable_terminate
\* true, and no step of the manager (bless, launch, discard, migrate or
\* reconciliation, failed or not) changes disable_terminate: it is as the
\* placeholder was made, true for a bless placeholder while it is BUILDING,
\* once it is BLESSED and when its bless has failed (ERROR).
C24_BlessedIsProtected ==
    /\ [](\A i \in Ids : db[i].vm_state = "blessed" => db[i].disable_terminate)
    /\ [][\A i \in Ids :
             db'[i].disable_terminate = db[i].disable_terminate]_vars

\* a bless has made its placeholder BLESSED, and the record is protected
C24_Witness ==
    \E t \in Tasks :
        /\ hist[t].fn = "bless" /\ hist[t].id = 2
        /\ stack[t] = <<>>
        /\ db[2].present
        /\ db[2].vm_state = "blessed"
        /\ db[2].disable_terminate

\* the step of t stores the final update of a launch of instance i
StoresLaunched(t, i) ==
    /\ Running(t, "launch", "l_final")
    /\ Top(t).id = i
    /\ stack'[t] # stack[t]
    /\ Len(hist'[t].trail) > Len(hist[t].trail)

\* the step of t stores the update of a bless of instance i to BLESSED
StoresBlessed(t, i) ==
    /\ Running(t, "bless", "b_upd")
    /\ Top(t).id = i
    /\ stack'[t] # stack[t]
    /\ db'[i].vm_state = "blessed" /\ db[i].vm_state # "blessed"

----------------------------------------------------------------------------
(* The page budget of a launch.  A launch_instance request for placeholder  *)
(* 4 has reached the manager of h1 with a "target" in its params; the       *)
(* launch runs up to the conversion of the target.                          *)

\* the characters of the generated targets
TargetChars == {"1", "5", "k", "K", "b", "B", "m", "g", "-", "\n"}

ShortTargets == UNION {[1..n -> TargetChars] : n \in 1..MaxTargetLen}

\* the targets of the unit tests, but for '512TB', whose page count is
\* beyond the integers of the model checker
TestTargets ==
    { <<"5", "1", "2", "M", "B">>,
      <<"5", "1", "2", "m", "B">>,
      <<"5", "1", "2", "M", "b">>,
      <<"5", "1", "2", "m", "b">>,
      <<"1", "T", "B">>,
      <<"1", "G", "B">>,
      <<"1", "M", "B">>,
      <<"2", "K", "B">>,
      <<"4", "K", "B">>,
      <<"2", "0", "K", "B">>,
      <<"1", "2", "2", "8", "7", "b">>,
      <<"1", "2", "2", "8", "8", "b">>,
      <<"5", "1", "2">>,
      <<"4", "0", "9", "6">>,
      <<"8", "1", "9", "2">>,
      <<"5", "1", "2", "m", "e", "g", "a", "b", "y", "t", "e", "s">>,
      <<"g", "a", "r", "b", "a", "g", "e">>,
      <<"-", "5", "1", "2", "M", "B">> }

Targets == ShortTargets \cup TestTargets

InitPages ==
    /\ locked_instances = [h \in Hosts |-> <<>>]
    /\ cond = [h \in Hosts |-> NoOne]
    /\ \E mem \in Targets :
          stack = [t \in AllTasks |->
                     IF t = "t1"
                     THEN <<[NewFrame("launch", "h1", 4, FALSE, None, None)
                               EXCEPT !.target = mem, !.param = mem]>>
                     ELSE <<>>]
    /\ result = [t \in AllTasks |-> "idle"]
    /\ acq = [t \in AllTasks |-> [h \in Hosts |-> [i \in ReqIds |-> 0]]]
    /\ db = InitialRecords
    /\ metadata = InitialMetadata
    /\ running = [h \in Hosts |-> IF h = "h1" THEN {1} ELSE {}]
    /\ refresh = [h \in Hosts |-> IdleRefresh]
    /\ now = 2
    /\ faults = 0
    /\ passes = 0
    /\ hist = [t \in AllTasks |->
                  IF t = "t1"
                  THEN [NoHistory EXCEPT !.fn = "launch", !.id = 4,
                                         !.host = "h1", !.start = 1]
                  ELSE NoHistory]

NextPages ==
    \E t \in Tasks :
        \/ _lock_instance(t)
        \/ LaunchGetSource(t)
        \/ LaunchTarget(t)
        \/ _unlock_instance(t)

SpecPages == InitPages /\ [][NextPages]_vars

\* request t has had its target converted: the target it was given and what
\* memory_string_to_pages did with it are in its frame
Converted(t) == stack[t] # <<>> /\ Top(t).conv.called

\* the spellings of the unit suffixes, in lower case
Suffixes == {<<>>, <<"b">>, <<"k", "b">>, <<"m", "b">>, <<"g", "b">>, <<"t", "b">>}

\* the number of leading digits of str
Leading(str) ==
    CHOOSE n \in 0..Len(str) :
        /\ \A k \in 1..n : IsDigit(str[k])
        /\ n < Len(str) => ~IsDigit(str[n + 1])

\* str is made of decimal digits, optionally followed by a unit suffix in
\* any letter case
InGrammar(str) ==
    /\ Leading(str) > 0
    /\ Lower(SubSeq(str, Leading(str) + 1, Len(str))) \in Suffixes

\* the page counts the tests list
ListedPages ==
    { <<<<"1", "T", "B">>, 268435456>>,
      <<<<"1", "G", "B">>, 262144>>,
      <<<<"1", "M", "B">>, 256>>,
      <<<<"2", "K", "B">>, 1>>,
      <<<<"4", "K", "B">>, 1>>,
      <<<<"2", "0", "K", "B">>, 5>>,
      <<<<"1", "2", "2", "8", "7", "b">>, 2>>,
      <<<<"1", "2", "2", "8", "8", "b">>, 3>>,
      <<<<"5", "1", "2">>, 1>>,
      <<<<"4", "0", "9", "6">>, 1>>,
      <<<<"8", "1", "9", "2">>, 2>> }

\* C26: memory_string_to_pages accepts exactly the strings of the grammar
\* (every other string raises ValueError), returns the same page count for
\* every letter case of a string, and returns the page counts the tests list.
C26_PagesGrammar ==
    \A t \in Tasks :
        Converted(t)
        => LET mem == Top(t).param
               r == Top(t).conv
           IN /\ ~r.raised <=> InGrammar(mem)
              /\ \A other \in Targets :
                    Lower(other) = Lower(mem) => memory_string_to_pages(other) = r
              /\ \A p \in ListedPages :
                    mem = p[1] => ~r.raised /\ r.pages = p[2]

\* the power of two by which the unit of an accepted target multiplies its
\* digits
UnitShift(suffix) ==
    CASE suffix \in {<<>>, <<"b">>} -> 0
      [] suffix = <<"k", "b">> -> 10
      [] suffix = <<"m", "b">> -> 20
      [] suffix = <<"g", "b">> -> 30
      [] suffix = <<"t", "b">> -> 40

\* the digits and the unit of an accepted target; a newline that ends the
\* target is not part of either
Amount(str) ==
    LET low == Lower(str)
        body == IF str[Len(str)] = "\n" THEN SubSeq(low, 1, Len(low) - 1) ELSE low
    IN [val |-> LongOf(SubSeq(body, 1, Leading(body))),
        shift |-> UnitShift(SubSeq(body, Leading(body) + 1, Len(body)))]

\* pages * 4096 <= bytes, for bytes = a.val * 2^a.shift, compared without
\* forming a number of more than 31 bits
PagesFit(pages, a) ==
    IF a.shift >= PageShift
    THEN pages <= a.val * 2^(a.shift - PageShift)
    ELSE pages * 2^PageShift <= a.val * 2^a.shift

\* bytes <= pages * 4096, compared in the same way
BytesFit(pages, a) ==
    IF a.shift >= PageShift
    THEN a.val * 2^(a.shift - PageShift) <= pages
    ELSE a.val * 2^a.shift <= pages * 2^PageShift

\* the original statement of C27: the page count is the ceiling of the byte
\* value divided by 4096, with a floor of 1: the smallest count, at least 1,
\* whose pages hold the byte value
C27_PagesAreCeiling ==
    \A t \in Tasks :
        (Converted(t) /\ ~Top(t).conv.raised)
        => LET a == Amount(Top(t).param)
               pages == Top(t).conv.pages
           IN /\ pages >= 1
              /\ BytesFit(pages, a)
              /\ pages > 1 => ~BytesFit(pages - 1, a)

\* C27 (amended): for every target memory_string_to_pages accepts, the page
\* count is the byte value divided by 4096 and rounded down, with a floor of
\* 1 page: 1 when the byte value is below 4096, else the largest count whose
\* pages do not exceed the byte value.
C27_PagesAreFloor ==
    \A t \in Tasks :
        (Converted(t) /\ ~Top(t).conv.raised)
        => LET a == Amount(Top(t).param)
               pages == Top(t).conv.pages
           IN /\ pages >= 1
              /\ ~PagesFit(1, a) => pages = 1
              /\ PagesFit(1, a) => PagesFit(pages, a) /\ ~PagesFit(pages + 1, a)

\* a target of more than one page whose byte value is not a whole number of
\* pages has been converted
C27_Witness ==
    \E t \in Tasks :
        /\ Converted(t) /\ ~Top(t).conv.raised
        /\ Top(t).conv.pages > 1
        /\ PagesFit(Top(t).conv.pages, Amount(Top(t).param))
        /\ ~BytesFit(Top(t).conv.pages, Amount(Top(t).param))

----------------------------------------------------------------------------
(* Claims about the except block of bless_instance, checked under Spec.     *)

\* the bless of request t is about to leave through the finally of wrapped_fn
BlessLeaving(t) ==
    stack[t] # <<>> /\ Top(t).fn = "bless" /\ Top(t).pc = "unlock"

\* the names of the driver calls of t's bless, in order
CallNames(t) == [k \in 1..Len(hist[t].calls) |-> hist[t].calls[k][1]]

\* C28: when post_bless has failed, the bless leaves by raising, and a
\* migrate that made it goes on neither to the pre-migration hook nor to a
\* launch.
C28_PostBlessFailureRaised ==
    \A t \in Tasks :
        "post_bless failed" \in hist[t].notes
        => /\ BlessLeaving(t) => Top(t).exc
           /\ "pre_migration" \notin hist[t].effects
           /\ \A k \in 1..Len(stack[t]) : stack[t][k].fn # "launch"

\* the step of t, at a call of the second try block of bless_instance, fails
FailsInTry(t) ==
    /\ InBody(t, "bless")
    /\ Top(t).pc \in {"b_post", "b_mget", "b_mupd", "b_upd"}
    /\ stack'[t] # stack[t]
    /\ faults' # faults \/ (Top(t).pc = "b_upd" /\ ~db[Top(t).id].present)
    /\ "notify failed" \notin (hist'[t].notes \ hist[t].notes)

\* the step of t is a call of the except block of bless_instance, at pc, that
\* succeeds
Compensates(t, pc) ==
    /\ InBody(t, "bless")
    /\ Top(t).pc = pc
    /\ stack'[t] # stack[t]
    /\ faults' = faults
    /\ db[Top(t).id].present

\* a failure in the second try block enters the except block, with the
\* references post_bless returned (none when it is post_bless that failed);
\* the block, as long as its own calls succeed, re-launches the instance on
\* this host in a migration, then discards those references, then marks the
\* record ERROR unless in a migration; nothing else of the record is written
BlessCompensates ==
    \A t \in Tasks :
        LET f == Top(t)
            g == stack'[t][Len(stack[t])]
            calls == hist'[t].calls
        IN /\ FailsInTry(t)
              => /\ g.pc = IF f.mig THEN "b_relaunch" ELSE "b_undo"
                 /\ ~g.exc
                 /\ g.refs = IF f.pc = "b_post" THEN <<>> ELSE f.refs
                 /\ db' = db
           /\ Compensates(t, "b_relaunch")
              => /\ f.mig
                 /\ g.pc = "b_undo"
                 /\ calls = Append(hist[t].calls, <<"launch", <<>>>>)
                 /\ f.id \in running'[f.host]
                 /\ db' = db
           /\ Compensates(t, "b_undo")
              => /\ g.pc = IF f.mig THEN "b_cleanup" ELSE "b_err1"
                 /\ calls = Append(hist[t].calls, <<"discard", f.refs>>)
                 /\ db' = db
           /\ Compensates(t, "b_err1")
              => /\ ~f.mig
                 /\ g.pc = "b_cleanup"
                 /\ db' = [db EXCEPT ![f.id].vm_state = "error",
                                     ![f.id].task_state = None]

\* a bless that leaves after its except block ran to its end: the driver's
\* discard was called, after the driver's launch and only then in a
\* migration; the record is ERROR with no task_state unless in a migration,
\* where its vm_state is the one from before the call
BlessCompensated ==
    \A t \in Tasks :
        (/\ BlessLeaving(t) /\ ~Top(t).exc
         /\ \E k \in 1..Len(hist[t].calls) : CallNames(t)[k] = "discard")
        => LET names == CallNames(t) IN
           /\ Top(t).mig
              => /\ \E j, k \in 1..Len(names) :
                       j < k /\ names[j] = "launch" /\ names[k] = "discard"
                 /\ Alone(t) => db[Top(t).id].vm_state = Top(t).pre.vm_state
           /\ ~Top(t).mig
              => /\ \A k \in 1..Len(names) : names[k] # "launch"
                 /\ db[Top(t).id].vm_state = "error"
                 /\ db[Top(t).id].task_state = None

\* C29: when post_bless, or the metadata or state write after it, fails in
\* a bless, then, as long as the compensating calls themselves succeed: a
\* bless that is not a migration calls the driver's discard with the
\* references produced so far and sets the record to ERROR with no
\* task_state; a migration bless first calls the driver's launch, which
\* brings the instance back on this host, then the driver's discard, and
\* does not change vm_state.
C29_BlessCompensation ==
    /\ [][BlessCompensates]_vars
    /\ []BlessCompensated

\* a migration bless whose post_bless failed has re-launched, then discarded
C29_Witness ==
    \E t \in Tasks :
        /\ BlessLeaving(t) /\ Top(t).mig /\ ~Top(t).exc
        /\ "post_bless failed" \in hist[t].notes
        /\ \E j, k \in 1..Len(hist[t].calls) :
              j < k /\ CallNames(t)[j] = "launch" /\ CallNames(t)[k] = "discard"
        /\ Top(t).id \in running[Top(t).host]
        /\ db[Top(t).id].vm_state = Top(t).pre.vm_state

\* C30: a bless whose driver bless call succeeded calls bless_cleanup exactly
\* once, as its last driver call, before it leaves.
C30_CleanupOnceAndLast ==
    \A t \in Tasks :
        (/\ BlessLeaving(t)
         /\ \E k \in 1..Len(hist[t].calls) : CallNames(t)[k] = "bless"
         /\ "bless failed" \notin hist[t].notes)
        => LET names == CallNames(t) IN
           /\ names[Len(names)] = "bless_cleanup"
           /\ Cardinality({k \in 1..Len(names) : names[k] = "bless_cleanup"}) = 1

----------------------------------------------------------------------------
(* Claims about the error handling of migrate_instance, checked under Spec. *)

\* request t is a migrate whose precondition check passed: the record read
\* before the lock names the host that got the request
PassedCheck(t) ==
    /\ hist[t].fn = "migrate"
    /\ hist[t].id \in Ids
    /\ hist[t].refhost = hist[t].host

\* C31: a migrate whose precondition check passed never ends by raising to
\* its caller: the failure of a later step is logged and the saga goes on.
C31_MigrateNeverAborts ==
    \A t \in Tasks : PassedCheck(t) => result[t] # "error"

----------------------------------------------------------------------------
(* Claims about the final update of launch_instance, checked under Spec.    *)

\* the step of t is the final update of its launch, and the store fails it
FinalUpdateFails(t) ==
    /\ InBody(t, "launch")
    /\ Top(t).pc = "l_final"
    /\ stack'[t] # stack[t]
    /\ faults' # faults

\* the record of a launch between its SPAWNING update and its final update
Spawning(f) == IF f.mig THEN "migrating" ELSE "building"

\* the final update of a launch failed: the record is as the launch left it
\* before the driver call, and the launch returns
FinalUpdateLost(t) ==
    LET f == Top(t)
        g == stack'[t][Len(stack[t])]
    IN FinalUpdateFails(t)
       => /\ f.id \in running[f.host]
          /\ g.pc = "unlock" /\ ~g.exc
          /\ db' = db
          /\ db'[f.id].vm_state = Spawning(f)
          /\ db'[f.id].task_state = "spawning"

\* C32: when the final update of a launch fails after the driver's launch
\* succeeded, launch_instance returns without raising and the record stays
\* BUILDING (a fresh launch) or MIGRATING (a migration launch) with
\* task_state SPAWNING; it is not set to ERROR.
C32_FinalUpdateFailureSwallowed ==
    [][\A t \in Tasks : FinalUpdateLost(t)]_vars

\* a launch returns with its VM running and its record still SPAWNING
C32_Witness ==
    \E t \in Tasks :
        /\ stack[t] # <<>> /\ Top(t).fn = "launch" /\ Top(t).pc = "unlock"
        /\ ~Top(t).exc
        /\ Top(t).id \in running[Top(t).host]
        /\ db[Top(t).id].vm_state = Spawning(Top(t))
        /\ db[Top(t).id].task_state = "spawning"

----------------------------------------------------------------------------
(* The periodic passes.  periodic_tasks runs _refresh_host on every host,   *)
(* again and again, and logs what a pass raises.  The behaviours start when *)
(* no request is in flight: instance 1 is running on its host, or its       *)
(* migration stalled; instance 4 is a placeholder, or a launch on a host    *)
(* started its VM and failed to store its final update, which leaves the    *)
(* record BUILDING/SPAWNING, bound to that host (unbound when the launch    *)
(* ran with stub_network).                                                  *)

\* the record a fresh launch leaves when its final update is not stored
SpawningRecord(bound) == Record("building", "spawning", bound, <<>>, FALSE)

\* instance 4 at the start: the host its VM runs on (None: a placeholder)
\* and the host its record is bound to
Launches ==
    {<<None, None>>}
    \cup {l \in Hosts \X (Hosts \cup {None}) : l[2] \in {l[1], None}}

InitPeriodic ==
    /\ locked_instances = [h \in Hosts |-> <<>>]
    /\ cond = [h \in Hosts |-> NoOne]
    /\ stack = [t \in AllTasks |-> <<>>]
    /\ result = [t \in AllTasks |-> "idle"]
    /\ acq = [t \in AllTasks |-> [h \in Hosts |-> [i \in ReqIds |-> 0]]]
    /\ \E p \in StalledHints, bound \in Hosts, here \in SUBSET Hosts,
          l \in Launches :
          /\ db = [InitialRecords EXCEPT
                      ![1] = StalledRecord(bound),
                      ![4] = IF l[1] = None THEN @ ELSE SpawningRecord(l[2])]
          /\ metadata = [InitialMetadata EXCEPT ![1] = StalledMetadata(p[1], p[2])]
          /\ running = [h \in Hosts |->
                           (IF h \in here THEN {1} ELSE {})
                           \cup (IF h = l[1] THEN {4} ELSE {})]
    /\ refresh = [h \in Hosts |-> IdleRefresh]
    /\ now = 1
    /\ faults = 0
    /\ passes = 0
    /\ hist = [t \in AllTasks |-> NoHistory]

\* periodic_tasks calls _refresh_host; the passes are not counted
RefreshAgain(h) == Scan(h) /\ UNCHANGED passes

\* the network service of a host does not answer, for as long as it takes:
\* an rpc.call of _migration_reconfigure_networks raises, which ends the pass
ReconfigureUnanswered(h) ==
    /\ refresh[h].pc = "reconf"
    /\ refresh' = [refresh EXCEPT ![h] = IdleRefresh]
    /\ cond' = [cond EXCEPT ![h] = NoOne]
    /\ UNCHANGED <<locked_instances, stack, result, acq, db, metadata, running,
                   now, faults, passes, hist>>

periodic_tasks(h) ==
    \/ RefreshAgain(h)
    \/ RefreshExamine(h)
    \/ RefreshReconfigure(h)
    \/ ReconfigureUnanswered(h)
    \/ RefreshUpdate(h)
    \/ RefreshEnd(h)

NextPeriodic == \E h \in Hosts : periodic_tasks(h)

SpecPeriodic == InitPeriodic /\ [][NextPeriodic]_vars

\* every host keeps running passes, and a pass that started goes on to its end
FairSpecPeriodic ==
    /\ SpecPeriodic
    /\ \A h \in Hosts : WF_vars(periodic_tasks(h))

\* the VM of instance i runs on host h and nowhere else
RunsOnlyOn(i, h) == \A g \in Hosts : i \in running[g] <=> g = h

\* a fresh launch of i on some host started the VM and its final update was
\* not stored
LeftBuilding(i) ==
    /\ db[i].vm_state = "building" /\ db[i].task_state = "spawning"
    /\ \E h \in Hosts : RunsOnlyOn(i, h) /\ db[i].host \in {h, None}

\* a migration launch of i, on the destination or (the fallback) on the
\* source, started the VM and its final update was not stored: the record
\* is still bound to the source
LeftMigrating(i) ==
    /\ db[i].vm_state = "migrating" /\ db[i].task_state = "spawning"
    /\ "gc_src_host" \in metadata[i].keys
    /\ db[i].host = metadata[i].gc_src_host
    /\ \E h \in {metadata[i].gc_src_host, metadata[i].gc_dst_host} :
          RunsOnlyOn(i, h)

\* C33: an instance left BUILDING or MIGRATING because the final update of
\* its launch failed, with its VM running on the launching host, is
\* eventually ACTIVE when the hosts keep running passes.
C33_LeftoverBecomesActive ==
    \A i \in Ids :
        (LeftBuilding(i) \/ LeftMigrating(i)) ~> (db[i].vm_state = "active")

\* instance i is recorded MIGRATING with both hints, bound to one of the two
\* hosts they name
Stalled(i) ==
    /\ db[i].vm_state = "migrating"
    /\ {"gc_src_host", "gc_dst_host"} \subseteq metadata[i].keys
    /\ db[i].host \in {metadata[i].gc_src_host, metadata[i].gc_dst_host}

\* the record of i has left MIGRATING: ACTIVE and bound to a host its VM runs
\* on, or ERROR with its VM running on no host
Settled(i) ==
    \/ /\ db[i].vm_state = "active"
       /\ db[i].host \in Hosts
       /\ i \in running[db[i].host]
    \/ /\ db[i].vm_state = "error"
       /\ \A h \in Hosts : i \notin running[h]

\* C34: a record that is MIGRATING with both hints and bound to one of the
\* two hosts eventually leaves MIGRATING when both hosts keep running passes,
\* ending ACTIVE bound to the host where its VM runs, or ERROR when it runs
\* on neither, and later passes leave it so.
C34_StalledSettles ==
    \A i \in Ids : Stalled(i) ~> [](Settled(i))

\* the step of h's pass is a network reconfiguration that raises: the pass
\* was at the call and moves without the networks reconfigured
ReconfigureFails(h) ==
    /\ refresh[h].pc = "reconf"
    /\ refresh'[h] # refresh[h]
    /\ refresh'[h].reconf = None

\* C35: in a pass, the failure of the network reconfiguration for an
\* instance running here with this host recorded as dst is not propagated:
\* the pass goes on to set that instance ACTIVE, keeps the instances it has
\* still to examine, and holds the condition lock until its end.
C35_ReconfigureFailureSwallowed ==
    [][\A h \in Hosts :
          ReconfigureFails(h)
          => /\ refresh'[h].pc = "update"
             /\ refresh'[h].cur = refresh[h].cur
             /\ refresh'[h].state = "active"
             /\ refresh'[h].todo = refresh[h].todo
             /\ cond'[h] = cond[h]]_vars

----------------------------------------------------------------------------
(* Claims about the best-effort side-steps, checked under Spec.             *)

\* the pcs of the calls that are only best-effort side-steps
SideSteps == {"b_cleanup", "m_postmig", "m_cleanup"}

\* the step of t is one in which a best-effort side-step fails: the emission
\* of a notification, bless_cleanup, the post-migration hook, or the
\* source-side rollback call and network reconfiguration of a migration
SideStepFails(t) ==
    /\ stack[t] # <<>>
    /\ stack'[t] # stack[t]
    /\ \/ "notify failed" \in (hist'[t].notes \ hist[t].notes)
       \/ Top(t).pc \in SideSteps /\ faults' # faults

\* where the code goes on when the side-step at the pc of f succeeds
Continues(f) ==
    CASE f.pc = "b_mupd"    -> "b_upd"
      [] f.pc = "l_launch"  -> "l_final"
      [] f.pc = "d_destroy" -> "unlock"
      [] f.pc = "b_cleanup" -> "unlock"
      [] f.pc = "m_postmig" -> IF f.changed THEN "m_cleanup" ELSE "m_mget2"
      [] f.pc = "m_cleanup" -> "m_mget2"

\* C36: in bless, launch, discard and migrate the failure of a best-effort
\* side-step is not propagated and triggers no compensation: the call goes
\* on exactly where it goes on when the side-step succeeds, with no
\* exception pending, and the store and the VMs are as the successful step
\* leaves them.
C36_SideStepFailureIgnored ==
    [][\A t \in Tasks :
          SideStepFails(t)
          => LET f == Top(t) IN
             /\ stack'[t] = SetTop(stack, t, At(f, Continues(f)))[t]
             /\ ~f.exc
             /\ result' = result
             /\ db' = IF f.pc = "d_destroy"
                      THEN [db EXCEPT ![f.id].present = FALSE] ELSE db
             /\ metadata' = IF f.pc = "b_mupd"
                            THEN [metadata EXCEPT ![f.id] = BlessedMetadata(f)]
                            ELSE metadata
             /\ running' = IF f.pc = "l_launch"
                           THEN [running EXCEPT ![f.host] = @ \cup {f.id}]
                           ELSE running]_vars

\* a bless whose notification was not emitted has returned normally and left
\* the record blessed
C36_Witness ==
    \E t \in Tasks :
        /\ hist[t].fn = "bless"
        /\ "notify failed" \in hist[t].notes
        /\ result[t] = "ok"
        /\ db[hist[t].id].vm_state = "blessed"

----------------------------------------------------------------------------
(* Claims about where a migration leaves the VM, checked under Spec.        *)

\* the migrate of request t is leaving (by return or by exception) after its
\* migration bless destroyed the VM on the source
MigrateLeavingBlessed(t) ==
    /\ Len(stack[t]) = 1
    /\ Top(t).fn = "migrate" /\ Top(t).pc = "unlock"
    /\ \E k \in 1..Len(hist[t].calls) : hist[t].calls[k][1] = "bless"
    /\ "bless failed" \notin hist[t].notes

\* C37: no exit of migrate_instance after the migration bless leaves the VM
\* running on no host while the record is still ACTIVE and bound to the
\* source: the VM runs on the source or on the destination, or the record
\* is MIGRATING or ERROR.
C37_NoVanishedVM ==
    \A t \in Tasks :
        MigrateLeavingBlessed(t)
        => LET f == Top(t) IN
           \/ f.id \in running[f.host] \cup running[f.dest]
           \/ db[f.id].vm_state \in {"migrating", "error"}

\* C38: at no time does the VM of one instance run on two hosts: the local
\* fallback launch of a migration never starts a second copy of a VM that
\* the destination has started.
C38_OneCopy ==
    \A i \in Ids : \A g, h \in Hosts :
        (i \in running[g] /\ i \in running[h]) => g = h

----------------------------------------------------------------------------
(* Claims about a launch and a discard of its template, checked under Spec. *)

\* the launch of request t, not a migration, has read the image references
\* of its template and its driver launch call has not completed
UsesTemplate(t) ==
    /\ stack[t] # <<>>
    /\ Top(t).fn = "launch" /\ ~Top(t).mig
    /\ Top(t).pc \in {"l_net_upd", "l_alloc", "l_upd_spawn", "l_prelive",
                      "l_launch"}

\* the step of u is the driver's discard of instance i
DiscardsDriver(u, i) ==
    /\ Running(u, "discard", "d_discard")
    /\ Top(u).id = i
    /\ stack'[u] # stack[u]

\* C39: on one host, the driver's discard of a blessed template is never
\* invoked between the moment a launch from that template has read the
\* template's image references and the completion of its driver launch.
C39_LaunchExcludesDiscard ==
    [][\A t, u \in Tasks :
          UsesTemplate(t)
          => ~(/\ DiscardsDriver(u, launched_from(Top(t).id))
               /\ Top(u).host = Top(t).host)]_vars

----------------------------------------------------------------------------
(* _instance_update: the retry loop around db.instance_update.  In the      *)
(* protocols above one call of _instance_update is one step, which succeeds *)
(* or fails as a whole; here a greenlet calls it to mark an instance ERROR, *)
(* as the except blocks of bless_instance and launch_instance do, and every *)
(* attempt of the loop is a step.  The store may fail any attempt.          *)

MaxRetries == 12    \* if retries < 12
RetryDelay == 5     \* time.sleep(5.0)

\* the kwargs of the call: vm_state=vm_states.ERROR, task_state=None
ErrorChanges == [vm_state |-> "error", task_state |-> None]

\* the instances a bless or a launch marks ERROR: their placeholders
Placeholders == {2, 4}

\* a mutant of Exhausted: one more retry is allowed
ExhaustedLate(retries) == ~(retries < MaxRetries + 1)

\* the else of `if retries < 12`: the failure is raised
Exhausted(retries) == ~(retries < MaxRetries)

\* retries = 0; while True
UpdateCall(t) ==
    /\ stack[t] = <<>>
    /\ result[t] = "idle"
    /\ \E i \in Placeholders :
          /\ stack' = [stack EXCEPT ![t] =
                 <<[NewFrame("update", db[i].host, i, FALSE, None, None)
                       EXCEPT !.pc = "u_try"]>>]
          /\ hist' = [hist EXCEPT ![t] =
                 [NoHistory EXCEPT !.fn = "update", !.id = i]]
    /\ UNCHANGED <<locked_instances, cond, result, acq, db, metadata, running,
                   refresh, now, faults, passes>>

\* try: return self.db.instance_update(...); except: retries += 1 and sleep
\* if retries < 12, else raise
UpdateAttempt(t) ==
    /\ Running(t, "update", "u_try")
    /\ LET f == Top(t) IN
       \E ok \in BOOLEAN :
          /\ db' = IF ok THEN Updated(f.id, ErrorChanges) ELSE db
          /\ faults' = IF ok THEN faults ELSE faults + 1
          /\ hist' = [hist EXCEPT ![t].attempts = Append(@, ok),
                                  ![t].failed = @ \/ ~ok]
          /\ IF ok \/ Exhausted(f.retries)
             THEN /\ stack' = [stack EXCEPT ![t] = <<>>]
                  /\ result' = [result EXCEPT ![t] = IF ok THEN "ok" ELSE "error"]
             ELSE /\ Goto(t, [f EXCEPT !.retries = @ + 1, !.pc = "u_sleep"])
                  /\ UNCHANGED result
    /\ UNCHANGED <<locked_instances, cond, acq, metadata, running, refresh, now,
                   passes>>

\* time.sleep(5.0), then the loop tries again
UpdateSleep(t) ==
    /\ Running(t, "update", "u_sleep")
    /\ now' = now + RetryDelay
    /\ Goto(t, At(Top(t), "u_try"))
    /\ UNCHANGED <<locked_instances, cond, result, acq, db, metadata, running,
                   refresh, faults, passes, hist>>

NextRetry ==
    \E t \in Tasks : UpdateCall(t) \/ UpdateAttempt(t) \/ UpdateSleep(t)

SpecRetry == Init /\ [][NextRetry]_vars

\* a call that was made goes on: the store answers every attempt and the
\* sleep ends
FairSpecRetry ==
    /\ SpecRetry
    /\ \A t \in Tasks : WF_vars(UpdateAttempt(t)) /\ WF_vars(UpdateSleep(t))

\* request t called _instance_update, and the call has ended
Updating(t) == hist[t].fn = "update"
UpdateEnded(t) == Updating(t) /\ stack[t] = <<>>

\* the attempts of one call: never more than the first and MaxRetries
\* retries; only the last one can have succeeded, and then the call ended
\* at once with the store's result, the changes stored; a call that raised
\* made every attempt and all of them failed
RetryBounded ==
    \A t \in Tasks :
        Updating(t)
        => LET a == hist[t].attempts IN
           /\ Len(a) <= MaxRetries + 1
           /\ \A k \in 1..(Len(a) - 1) : ~a[k]
           /\ (a # <<>> /\ a[Len(a)]) => (UpdateEnded(t) /\ result[t] = "ok")
           /\ result[t] = "ok"
              => /\ a # <<>> /\ a[Len(a)]
                 /\ db[hist[t].id].vm_state = "error"
                 /\ db[hist[t].id].task_state = None
           /\ result[t] = "error"
              => /\ Len(a) = MaxRetries + 1
                 /\ \A k \in 1..Len(a) : ~a[k]
           /\ UpdateEnded(t) => result[t] \in {"ok", "error"}

\* between two attempts the call sleeps for the fixed delay
RetryDelayed ==
    \A t \in Tasks :
        (Running(t, "update", "u_sleep") /\ stack'[t] # stack[t])
        => /\ now' = now + RetryDelay
           /\ hist'[t].attempts = hist[t].attempts

\* C40: _instance_update retries a failing store update with a fixed delay
\* and always terminates: it returns at the first successful attempt without
\* further attempts, makes at most 13 attempts, and raises the failure when
\* the 13th attempt fails too.
C40_RetryTerminates ==
    /\ []RetryBounded
    /\ [][RetryDelayed]_vars
    /\ \A t \in Tasks : Updating(t) ~> UpdateEnded(t)

\* a call has raised after 13 failed attempts while another returned at its
\* third attempt
C40_Witness ==
    \E t, u \in Tasks :
        /\ result[t] = "error" /\ Len(hist[t].attempts) = MaxRetries + 1
        /\ result[u] = "ok" /\ Len(hist[u].attempts) = 3

====
